---- MODULE Spec2Model ----
(***************************************************************************)
(* SMSReminders: the reminder store, the four reminder tools, the periodic *)
(* delivery scheduler, the conversation store and the agent loop.          *)
(*                                                                         *)
(* Strings that the code inspects (phone numbers, titles) are sequences of *)
(* one-character strings; opaque strings (ids, message texts) are atoms.   *)
(* Instants are naturals.  An optional value is <<>> (undefined) or <<v>>. *)
(***************************************************************************)
EXTENDS Integers, Sequences, FiniteSets, TLC

\* ------------------------------------------------------------------ bounds

\* The clock runs over 0..MaxTime.
MaxTime == 1

\* The reminder store holds at most MaxReminders records.
MaxReminders == 2

\* At most MaxTicks scheduler ticks are started.
MaxTicks == 2

\* At most MaxCalls tool calls are made.
MaxCalls == 3

\* At most MaxRuns runs of the Agent Loop are started.
MaxRuns == 2

\* At most MaxMessages messages are appended to a conversation one by one.
MaxMessages == 2

\* ------------------------------------------------------- program constants

\* z.string().min(1).max(200) on a reminder title.
TitleMax == 200

\* z.string().max(1000) on a reminder description.
DescriptionMax == 1000

\* ------------------------------------------------------------ value spaces

None == <<>>

Some(v) == <<v>>

Digits == {"0", "1", "2", "3", "4", "5", "6", "7", "8", "9"}

\* /^\+[1-9]\d{1,14}$/
IsE164(p) ==
    /\ Len(p) >= 3
    /\ Len(p) <= 16
    /\ p[1] = "+"
    /\ p[2] \in Digits \ {"0"}
    /\ \A i \in 3..Len(p) : p[i] \in Digits

PhoneA == <<"+", "1", "5", "5">>

PhoneB == <<"+", "4", "4", "7">>

\* The bound context {userId, conversationId, phoneNumber} of a tool set.  The
\* web chat binds '' when the authenticated user carries no phone number.
Contexts ==
    { [userId |-> "u1", conversationId |-> "c1", phoneNumber |-> PhoneA],
      [userId |-> "u2", conversationId |-> "c2", phoneNumber |-> PhoneB],
      [userId |-> "u2", conversationId |-> "c3", phoneNumber |-> <<>>] }

Repeat(c, n) == [i \in 1..n |-> c]

\* Titles a model may propose to create_reminder: empty, an ordinary one, one
\* of 201 characters; and to update_reminder: none, empty, another ordinary
\* one.
TitleInputs == {<<>>, <<"a">>, Repeat("x", TitleMax + 1)}

NewTitleInputs == {None, Some(<<>>), Some(<<"b">>)}

\* Descriptions a model may propose: none, an ordinary one, one of 1001
\* characters.
DescriptionInputs == {None, Some(<<"d">>), Some(Repeat("y", DescriptionMax + 1))}

NewDescriptionInputs == {None, Some(<<"e">>)}

Users == {"u1", "u2"}

Instants == 0..MaxTime

\* A date string: ISO text of an instant, or text that new Date() cannot parse.
DateText(t) == [iso |-> TRUE, t |-> t]

NotADate == [iso |-> FALSE, t |-> 0]

\* scheduledFor arguments: the instants of the clock and one beyond it, and
\* text that is no date.
DateInputs == {DateText(t) : t \in 0..(MaxTime + 1)} \cup {NotADate}

\* An id string: the hex text of an object id, or text that is none.
IdText(n) == [hex |-> TRUE, n |-> n]

NotAnId == [hex |-> FALSE, n |-> 0]

VARIABLES
    now,        \* the wall clock
    reminders,  \* the reminders collection: id (index) -> document
    toolOut,    \* the output of the last tool call
    nCalls,     \* tool calls made so far
    tick,       \* the scheduler ticks in progress, per tick slot
    nTicks,     \* ticks started so far
    delivered,  \* Notification Channel: successful sends, per reminder id,
                \* counted up to MaxTicks
    conversations,  \* the conversations collection: id (index) -> document
    appender,   \* the appendMessage calls in progress, per caller
    resolver,   \* the getOrCreateForUser calls in progress, per caller
    run,        \* the Agent Loop's run in progress, or the last one
    runLog,     \* the runs that ended, in order
    twin,       \* the non-streaming run fed the same completions, and its stores
    object,     \* a Reminder object in memory, and the last method called on it
    otpStore,   \* OTPService.otpStore: key -> the OTP stored under it, if any
    otpOut      \* the result of the last verifyOTP and, per key, what verifyOTP
                \* has returned since the last storeOTP

\* The reminder side, the conversation side.
reminderVars == <<reminders, toolOut, nCalls, tick, nTicks, delivered>>

conversationVars == <<conversations, appender, resolver>>

agentVars == <<run, runLog, twin>>

\* The Reminder object and the OTP service.
serviceVars == <<object, otpStore, otpOut>>

vars == <<now, reminderVars, conversationVars, agentVars, serviceVars>>

\* ------------------------------------------------------------ DateValidator

\* new Date(dateString) yields a valid date exactly for the parsable inputs.
IsISODate(d) == d.iso

\* date > currentTime
IsFutureDate_NotStrict(date, currentTime) == date >= currentTime

IsFutureDate(date, currentTime) == date > currentTime

\* validateFutureISODate returns the date, or throws (FALSE here).
ValidFutureISODate(d, currentTime) ==
    IF IsISODate(d) THEN IsFutureDate(d.t, currentTime) ELSE FALSE

\* ------------------------------------------------------------ Reminder model

ValidTitle(t) == Len(t) >= 1 /\ Len(t) <= TitleMax

ValidDescription(d) == d = None \/ Len(d[1]) <= DescriptionMax

\* A schema that takes any phone number.
ReminderSchemaOk_AnyPhone(r) ==
    /\ ValidTitle(r.title)
    /\ ValidDescription(r.description)
    /\ r.status \in {"pending", "sent", "cancelled"}

\* ReminderSchema.parse(this) in the Reminder constructor.
ReminderSchemaOk(r) ==
    /\ IsE164(r.phoneNumber)
    /\ ValidTitle(r.title)
    /\ ValidDescription(r.description)
    /\ r.status \in {"pending", "sent", "cancelled"}

IsPending(r) == r.status = "pending"

\* A due test that does not look at the status.
IsDue_AnyStatus(r, currentTime) == r.scheduledFor <= currentTime

\* isPending() && scheduledFor <= currentTime
IsDue(r, currentTime) == IsPending(r) /\ r.scheduledFor <= currentTime

IsSent(r) == r.status = "sent"

IsCancelled(r) == r.status = "cancelled"

\* A markAsSent that only touches the timestamp.
ReminderMarkAsSent_Keep(r, t) == [r EXCEPT !.updatedAt = t]

\* Reminder.markAsSent and Reminder.cancel: the status, then updateTimestamp.
ReminderMarkAsSent(r, t) == [r EXCEPT !.status = "sent", !.updatedAt = t]

ReminderCancel(r, t) == [r EXCEPT !.status = "cancelled", !.updatedAt = t]

\* A Reminder object nobody has called a method on.
IdleObject ==
    [reminder |-> [userId |-> "u1", conversationId |-> "c1", phoneNumber |-> PhoneA,
                   title |-> <<"a">>, description |-> None, scheduledFor |-> 0,
                   status |-> "pending", updatedAt |-> 0],
     last |-> "none"]

\* ------------------------------------------------------------------ OTPService
\* Minutes an OTP stays valid, and the failed attempts it survives.
OTP_EXPIRY_MINUTES == 10

MAX_ATTEMPTS == 5

\* The clock of the OTP service counts minutes and stops here.
MaxMinutes == 11

\* The addresses callers write, and the keys they are stored under.
Emails == {"Ann@x", "ann@x", "bob@x"}

OtpKeys == {"ann@x", "bob@x"}

Codes == {"111111", "222222"}

\* email.toLowerCase()
ToLowerCase(email) == IF email = "Ann@x" THEN "ann@x" ELSE email

NoOtps == [k \in OtpKeys |-> None]

\* storeOTP: a fresh entry under the lower-cased address, replacing any other.
StoreOTP(store, email, otp, t) ==
    [store EXCEPT ![ToLowerCase(email)] =
        Some([otp |-> otp, expiresAt |-> t + OTP_EXPIRY_MINUTES, attempts |-> 0])]

Verdict(valid, error) == [valid |-> valid, error |-> error]

\* A verifyOTP that leaves the entry in place when the code matches.
VerifyOTP_Keep(store, email, otp, t) ==
    LET key == ToLowerCase(email)
    IN  IF store[key] = None
        THEN [store |-> store, out |-> Verdict(FALSE, "missing")]
        ELSE LET stored == store[key][1]
             IN  IF t > stored.expiresAt
                 THEN [store |-> [store EXCEPT ![key] = None],
                       out |-> Verdict(FALSE, "expired")]
                 ELSE IF stored.attempts >= MAX_ATTEMPTS
                 THEN [store |-> [store EXCEPT ![key] = None],
                       out |-> Verdict(FALSE, "attempts")]
                 ELSE IF stored.otp # otp
                 THEN [store |-> [store EXCEPT ![key] =
                                     Some([stored EXCEPT !.attempts = @ + 1])],
                       out |-> Verdict(FALSE, "invalid")]
                 ELSE [store |-> store, out |-> Verdict(TRUE, "none")]

\* verifyOTP: no entry, expired, too many attempts, wrong code, or valid; every
\* outcome but the first and the wrong code deletes the entry.
VerifyOTP(store, email, otp, t) ==
    LET key == ToLowerCase(email)
    IN  IF store[key] = None
        THEN [store |-> store, out |-> Verdict(FALSE, "missing")]
        ELSE LET stored == store[key][1]
             IN  IF t > stored.expiresAt
                 THEN [store |-> [store EXCEPT ![key] = None],
                       out |-> Verdict(FALSE, "expired")]
                 ELSE IF stored.attempts >= MAX_ATTEMPTS
                 THEN [store |-> [store EXCEPT ![key] = None],
                       out |-> Verdict(FALSE, "attempts")]
                 ELSE IF stored.otp # otp
                 THEN [store |-> [store EXCEPT ![key] =
                                     Some([stored EXCEPT !.attempts = @ + 1])],
                       out |-> Verdict(FALSE, "invalid")]
                 ELSE [store |-> [store EXCEPT ![key] = None],
                       out |-> Verdict(TRUE, "none")]

\* cleanupExpiredOTPs: every entry past its expiry is deleted.
CleanupExpiredOTPs(store, t) ==
    [k \in OtpKeys |->
        IF store[k] # None /\ t > store[k][1].expiresAt THEN None ELSE store[k]]

\* What verifyOTP has answered for a key since the last storeOTP under it.
Fresh == [stored |-> FALSE, expiresAt |-> 0, valids |-> 0, fails |-> 0, closed |-> FALSE]

NoVerdict ==
    [valid |-> FALSE, error |-> "none", key |-> "none", since |-> [k \in OtpKeys |-> Fresh]]

\* ------------------------------------------------------- ReminderRepository

Ids(store) == DOMAIN store

\* { ...data, updatedAt: new Date() }
Merge(f, g) ==
    [k \in DOMAIN f \cup DOMAIN g |-> IF k \in DOMAIN g THEN g[k] ELSE f[k]]

\* create: updateTimestamp, insertOne; the new id is the next index.
RepoCreate(store, r, t) == Append(store, [r EXCEPT !.updatedAt = t])

\* An update that writes the whole document back, from a copy read while the
\* record was pending.
RepoUpdate_Overwrite(store, id, data, t) ==
    IF id \in Ids(store)
    THEN [store EXCEPT ![id] = Merge(Merge(@, [status |-> "pending"]),
                                     Merge(data, [updatedAt |-> t]))]
    ELSE store

\* update: findOneAndUpdate({_id}, {$set: {...data, updatedAt}}).
RepoUpdate(store, id, data, t) ==
    IF id \in Ids(store)
    THEN [store EXCEPT ![id] = Merge(@, Merge(data, [updatedAt |-> t]))]
    ELSE store

UpdateStatus(store, id, status, t) == RepoUpdate(store, id, [status |-> status], t)

MarkAsSent_Cancelled(store, id, t) == UpdateStatus(store, id, "cancelled", t)

MarkAsSent(store, id, t) == UpdateStatus(store, id, "sent", t)

\* A cancellation that removes the record.
CancelReminder_Remove(store, id, t) ==
    [j \in 1..(Len(store) - 1) |-> IF j < id THEN store[j] ELSE store[j + 1]]

CancelReminder(store, id, t) == UpdateStatus(store, id, "cancelled", t)

\* The ids of a set, in ascending order.
RECURSIVE Ascending(_)
Ascending(S) ==
    IF S = {} THEN <<>>
    ELSE LET m == CHOOSE x \in S : \A y \in S : x <= y
         IN  <<m>> \o Ascending(S \ {m})

FindDueReminders_Lt(store, currentTime) ==
    LET due == {i \in Ids(store) :
                    store[i].status = "pending" /\ store[i].scheduledFor < currentTime}
    IN  [k \in 1..Cardinality(due) |->
            [id |-> Ascending(due)[k], doc |-> store[Ascending(due)[k]]]]

\* A due query that returns the first match only.
FindDueReminders_First(store, currentTime) ==
    LET due == {i \in Ids(store) :
                    store[i].status = "pending" /\ store[i].scheduledFor <= currentTime}
    IN  [k \in 1..(IF due = {} THEN 0 ELSE 1) |->
            [id |-> Ascending(due)[k], doc |-> store[Ascending(due)[k]]]]

\* find({status: 'pending', scheduledFor: {$lte: currentTime}}).toArray():
\* the matching documents as read at the query, in storage order.
FindDueReminders(store, currentTime) ==
    LET due == {i \in Ids(store) :
                    store[i].status = "pending" /\ store[i].scheduledFor <= currentTime}
    IN  [k \in 1..Cardinality(due) |->
            [id |-> Ascending(due)[k], doc |-> store[Ascending(due)[k]]]]

\* ------------------------------------------------------------ ReminderTools
\* A tool call yields the store after the call and the tool's output.  The
\* output is the JSON object the tool returns, or "thrown" when tool.invoke
\* throws on arguments the zod schema rejects (the agent loop turns that into
\* the text "Error: ...").  dbOk, findOk and writeOk say whether the store's
\* insert, lookup and update succeed; a failing one throws inside the tool's
\* try block.  A tool's lookup and write are one step: the lookup reads only
\* the record's existence and userId, which no operation ever changes.

Thrown == [kind |-> "thrown", success |-> FALSE, error |-> "schema", id |-> 0]

Failure(e) == [kind |-> "json", success |-> FALSE, error |-> e, id |-> 0]

Success(id) == [kind |-> "json", success |-> TRUE, error |-> "", id |-> id]

NoOutput == [kind |-> "none", success |-> FALSE, error |-> "", id |-> 0]

\* z.object({title, description, scheduledFor}) of create_reminder.
CreateArgsOk(title, description, scheduledFor, t) ==
    /\ ValidTitle(title)
    /\ ValidDescription(description)
    /\ ValidFutureISODate(scheduledFor, t)

\* createdAt is written here and by nothing else, and read by no operation
\* modelled; the document is kept without it.
NewReminder(ctx, title, description, scheduledFor, t) ==
    [userId |-> ctx.userId, conversationId |-> ctx.conversationId,
     phoneNumber |-> ctx.phoneNumber, title |-> title,
     description |-> description, scheduledFor |-> scheduledFor.t,
     status |-> "pending", updatedAt |-> t]

\* create_reminder whose arguments the schema checks at the instant
\* validatedAt and whose func builds and inserts the reminder at the instant t.
CreateReminderToolAt(store, ctx, title, description, scheduledFor, validatedAt, t, dbOk) ==
    IF ~CreateArgsOk(title, description, scheduledFor, validatedAt)
    THEN [store |-> store, out |-> Thrown]
    ELSE LET r == NewReminder(ctx, title, description, scheduledFor, t)
         IN  IF ~ReminderSchemaOk(r)
             THEN [store |-> store, out |-> Failure("validation")]
             ELSE IF ~dbOk
             THEN [store |-> store, out |-> Failure("persistence")]
             ELSE [store |-> RepoCreate(store, r, t),
                   out |-> Success(Len(store) + 1)]

\* create_reminder run within one instant.
CreateReminderTool(store, ctx, title, description, scheduledFor, t, dbOk) ==
    CreateReminderToolAt(store, ctx, title, description, scheduledFor, t, t, dbOk)

\* z.object({reminderId, title?, description?, scheduledFor?}) of
\* update_reminder; title and scheduledFor are None or Some(value).
UpdateArgsOk(title, description, scheduledFor, t) ==
    /\ title = None \/ ValidTitle(title[1])
    /\ ValidDescription(description)
    /\ scheduledFor = None \/ ValidFutureISODate(scheduledFor[1], t)

\* Update data that always carries a description, undefined when none is
\* supplied.
UpdateData_Blank(title, description, scheduledFor) ==
    Merge(Merge(IF title # None /\ title[1] # <<>>
                THEN [title |-> title[1]] ELSE <<>>,
                [description |-> description]),
          IF scheduledFor # None
          THEN [scheduledFor |-> scheduledFor[1].t] ELSE <<>>)

\* if (title) ...; if (description !== undefined) ...; if (scheduledFor) ...
UpdateData(title, description, scheduledFor) ==
    Merge(Merge(IF title # None /\ title[1] # <<>>
                THEN [title |-> title[1]] ELSE <<>>,
                IF description # None
                THEN [description |-> description] ELSE <<>>),
          IF scheduledFor # None
          THEN [scheduledFor |-> scheduledFor[1].t] ELSE <<>>)

\* new ObjectId(reminderId) throws on text that is no object id.
IsObjectId(reminderId) == reminderId.hex

Owns_Anyone(store, id, userId) == TRUE

\* existing.userId.equals(userId)
Owns(store, id, userId) == store[id].userId = userId

\* update_reminder whose arguments the schema checks at the instant
\* validatedAt and whose func looks the reminder up and writes at the instant t.
UpdateReminderToolAt(store, userId, reminderId, title, description, scheduledFor, validatedAt, t, findOk, writeOk) ==
    IF ~UpdateArgsOk(title, description, scheduledFor, validatedAt)
    THEN [store |-> store, out |-> Thrown]
    ELSE IF ~IsObjectId(reminderId)
    THEN [store |-> store, out |-> Failure("bad id")]
    ELSE IF ~findOk
    THEN [store |-> store, out |-> Failure("persistence")]
    ELSE IF reminderId.n \notin Ids(store)
    THEN [store |-> store, out |-> Failure("Reminder not found.")]
    ELSE IF ~Owns(store, reminderId.n, userId)
    THEN [store |-> store,
          out |-> Failure("You do not have permission to update this reminder.")]
    ELSE IF ~writeOk
    THEN [store |-> store, out |-> Failure("persistence")]
    ELSE [store |-> RepoUpdate(store, reminderId.n,
                               UpdateData(title, description, scheduledFor), t),
          out |-> Success(reminderId.n)]

\* update_reminder run within one instant.
UpdateReminderTool(store, userId, reminderId, title, description, scheduledFor, t, findOk, writeOk) ==
    UpdateReminderToolAt(store, userId, reminderId, title, description, scheduledFor, t, t, findOk, writeOk)

DeleteReminderTool(store, userId, reminderId, t, findOk, writeOk) ==
    IF ~IsObjectId(reminderId)
    THEN [store |-> store, out |-> Failure("bad id")]
    ELSE IF ~findOk
    THEN [store |-> store, out |-> Failure("persistence")]
    ELSE IF reminderId.n \notin Ids(store)
    THEN [store |-> store, out |-> Failure("Reminder not found.")]
    ELSE IF ~Owns(store, reminderId.n, userId)
    THEN [store |-> store,
          out |-> Failure("You do not have permission to delete this reminder.")]
    ELSE IF ~writeOk
    THEN [store |-> store, out |-> Failure("persistence")]
    ELSE [store |-> CancelReminder(store, reminderId.n, t),
          out |-> Success(reminderId.n)]

\* z.enum(['pending', 'sent', 'cancelled']).optional() of list_reminders.
StatusArgOk(status) == status = None \/ status[1] \in {"pending", "sent", "cancelled"}

\* find(filter).sort({scheduledFor: 1}).toArray(): the matching ids in every
\* order in which scheduledFor never decreases; the sort fixes no order among
\* documents with the same scheduledFor.
FindMany(store, matching) ==
    {order \in [1..Cardinality(matching) -> matching] :
        /\ \A j, k \in DOMAIN order : j # k => order[j] # order[k]
        /\ \A j, k \in DOMAIN order :
              j < k => store[order[j]].scheduledFor <= store[order[k]].scheduledFor}

\* A lookup that matches every user's reminders.
FindByUserId_Everyone(store, userId) == FindMany(store, Ids(store))

\* findByUserId: findMany({userId}).
FindByUserId(store, userId) ==
    FindMany(store, {i \in Ids(store) : store[i].userId = userId})

\* reminders.filter((r) => r.status === status)
RECURSIVE WithStatus(_, _, _)
WithStatus(store, order, status) ==
    IF order = <<>> THEN <<>>
    ELSE (IF store[Head(order)].status = status THEN <<Head(order)>> ELSE <<>>)
         \o WithStatus(store, Tail(order), status)

\* The entry of the reply for a reminder; createdAt is left out as in the
\* stored document.
ListEntry(store, id) ==
    [id |-> id, title |-> store[id].title, description |-> store[id].description,
     scheduledFor |-> store[id].scheduledFor, status |-> store[id].status]

\* "You don't have any <status> reminders." / "You don't have any reminders
\* yet." / "Found <n> reminder(s)."
NoRemindersMessage(status) == [text |-> "none", status |-> status, n |-> 0]

FoundMessage(n) == [text |-> "found", status |-> None, n |-> n]

Listed(message, entries) ==
    Merge(Success(0), [message |-> message, reminders |-> entries])

\* list_reminders; found is the result of findByUserId, one of
\* FindByUserId(store, userId).  Reminder.fromDocument validates every document
\* read and throws on one the schema rejects.
ListRemindersTool(store, userId, status, found, findOk) ==
    IF ~StatusArgOk(status)
    THEN [store |-> store, out |-> Thrown]
    ELSE IF ~findOk
    THEN [store |-> store, out |-> Failure("persistence")]
    ELSE IF \E j \in DOMAIN found : ~ReminderSchemaOk(store[found[j]])
    THEN [store |-> store, out |-> Failure("validation")]
    ELSE LET kept == IF status # None THEN WithStatus(store, found, status[1])
                     ELSE found
         IN  IF Len(kept) = 0
             THEN [store |-> store, out |-> Listed(NoRemindersMessage(status), <<>>)]
             ELSE [store |-> store,
                   out |-> Listed(FoundMessage(Len(kept)),
                                  [j \in DOMAIN kept |-> ListEntry(store, kept[j])])]

\* status arguments: none, the three statuses, and a word that is none of them.
StatusInputs == {None, Some("pending"), Some("sent"), Some("cancelled"), Some("done")}

\* reminderId arguments: the ids the store can hold, and text that is no id.
IdInputs == {IdText(n) : n \in 1..MaxReminders} \cup {NotAnId}

Optional(S) == {None} \cup {Some(v) : v \in S}

\* -------------------------------------------------------- Conversation model

Newline == "\n"

\* 'New Conversation'
DefaultTitle ==
    <<"N", "e", "w", " ", "C", "o", "n", "v", "e", "r", "s", "a", "t", "i", "o", "n">>

\* firstMessage.split('\n')[0]
RECURSIVE FirstLine(_)
FirstLine(text) ==
    IF text = <<>> \/ Head(text) = Newline THEN <<>>
    ELSE <<Head(text)>> \o FirstLine(Tail(text))

\* substring(0, n)
Substring(text, n) == SubSeq(text, 1, IF Len(text) < n THEN Len(text) ELSE n)

\* The first 50 characters of the first line.
TitleCut == 50

\* A title without the ellipsis.
GenerateTitle_Cut(firstMessage) == Substring(FirstLine(firstMessage), TitleCut)

GenerateTitle(firstMessage) ==
    LET title == Substring(FirstLine(firstMessage), TitleCut)
    IN  IF Len(title) < Len(firstMessage) THEN title \o <<".", ".", ".">> ELSE title

\* addMessage putting the message first.
AddMessage_Unshift(conversation, role, content, t) ==
    [conversation EXCEPT
        !.messages = <<[role |-> role, content |-> content, timestamp |-> t]>> \o @,
        !.lastMessageAt = t,
        !.updatedAt = t]

\* addMessage stamping the message with a clock that runs backwards.
AddMessage_Backdated(conversation, role, content, t) ==
    [conversation EXCEPT
        !.messages = Append(@, [role |-> role, content |-> content,
                                timestamp |-> MaxTime - t]),
        !.lastMessageAt = t,
        !.updatedAt = t]

\* addMessage titling the conversation on every user message.
AddMessage_Retitle(conversation, role, content, t) ==
    LET pushed == [conversation EXCEPT
                      !.messages = Append(@, [role |-> role, content |-> content,
                                              timestamp |-> t]),
                      !.lastMessageAt = t,
                      !.updatedAt = t]
    IN  IF role = "user"
        THEN [pushed EXCEPT !.title = GenerateTitle(content)]
        ELSE pushed

\* addMessage: push the message, stamp the conversation, and title it when
\* this is its first message and a user's.
AddMessage(conversation, role, content, t) ==
    LET pushed == [conversation EXCEPT
                      !.messages = Append(@, [role |-> role, content |-> content,
                                              timestamp |-> t]),
                      !.lastMessageAt = t,
                      !.updatedAt = t]
    IN  IF Len(pushed.messages) = 1 /\ role = "user"
        THEN [pushed EXCEPT !.title = GenerateTitle(content)]
        ELSE pushed

\* ConversationSchema: an optional E.164 phone number, a title of 1 to 200
\* characters.
ConversationSchemaOk(conversation) ==
    /\ conversation.phoneNumber = None \/ IsE164(conversation.phoneNumber[1])
    /\ Len(conversation.title) >= 1
    /\ Len(conversation.title) <= TitleMax

\* getFormattedHistory
FormattedHistory(conversation) ==
    [j \in DOMAIN conversation.messages |->
        [role |-> conversation.messages[j].role,
         content |-> conversation.messages[j].content]]

\* ---------------------------------------------------- ConversationRepository

\* new Conversation({userId, phoneNumber, title: 'New Conversation',
\* messages: [], ...}); createdAt is kept out of the document, as for reminders.
NewConversation(userId, phoneNumber, t) ==
    [userId |-> userId, phoneNumber |-> phoneNumber, title |-> DefaultTitle,
     messages |-> <<>>, lastMessageAt |-> t, updatedAt |-> t]

\* updateOne({_id}, {$set: {messages, title, lastMessageAt, updatedAt}}) with
\* the fields of the caller's in-memory conversation.
PersistMessages(store, id, conversation) ==
    [store EXCEPT ![id] =
        Merge(@, [messages |-> conversation.messages,
                  title |-> conversation.title,
                  lastMessageAt |-> conversation.lastMessageAt,
                  updatedAt |-> conversation.updatedAt])]

\* An appendMessage that stores nothing.
AppendMessage_Dropped(store, id, role, content, t) == store

\* appendMessage run without interruption: findById, addMessage, updateOne.
\* An unknown id is logged and changes nothing.
AppendMessage(store, id, role, content, t) ==
    IF id \in DOMAIN store
    THEN PersistMessages(store, id, AddMessage(store[id], role, content, t))
    ELSE store

\* Callers of appendMessage that may run at once.
Appenders == {"a1", "a2"}

\* An appendMessage call: where it stands (pc), its arguments, and the
\* conversation it loaded and changed in memory.
IdleAppender ==
    [pc |-> "idle", id |-> 0, role |-> "user", content |-> <<>>,
     loaded |-> NewConversation("u1", None, 0), result |-> "none"]

Roles == {"user", "assistant", "system"}

\* Message texts: two lines, one line.
Texts == {<<"h", "i", Newline, "x">>, <<"y", "o">>}

\* A conversation of user u1 that holds one message.
StartedConversation ==
    AddMessage(NewConversation("u1", Some(PhoneA), 0), "user", <<"h", "i">>, 0)

\* findById / findOne's result, rebuilt by fromDocument, whose constructor
\* validates the document and throws on one the schema rejects.
ConversationLoads(store, id) == ConversationSchemaOk(store[id])

\* findByPhoneNumber: the ids of the conversations stored under the number.
ConversationsOf(store, phoneNumber) ==
    {id \in DOMAIN store : store[id].phoneNumber = Some(phoneNumber)}

Lowest(S) == CHOOSE n \in S : \A m \in S : n <= m

\* getOrCreateForUser with a phone number text: the conversation stored under a
\* non-empty number if there is one, else a new one, which the constructor
\* rejects when the number is not E.164.
GetOrCreateForUser(store, userId, phoneNumber, t) ==
    IF phoneNumber # <<>> /\ ConversationsOf(store, phoneNumber) # {}
    THEN LET id == Lowest(ConversationsOf(store, phoneNumber))
         IN  [store |-> store, id |-> id, ok |-> ConversationLoads(store, id)]
    ELSE LET conversation == NewConversation(userId, Some(phoneNumber), t)
         IN  IF ConversationSchemaOk(conversation)
             THEN [store |-> Append(store, conversation), id |-> Len(store) + 1,
                   ok |-> TRUE]
             ELSE [store |-> store, id |-> 0, ok |-> FALSE]

\* Callers of getOrCreateForUser that may run at once.
Resolvers == {"g1", "g2"}

\* A getOrCreateForUser call: where it stands (pc), its arguments, the calls
\* its caller has made (n), and the id of the conversation it returned, or 0
\* when it threw.
IdleResolver ==
    [pc |-> "idle", userId |-> "u1", phoneNumber |-> <<>>, n |-> 0, id |-> 0]

\* ------------------------------------------------------------- AgentService

\* const maxIterations = 5
maxIterations == 5

\* A loop that gives up one round early.
LoopContinues_Short(i) == i < maxIterations - 1

\* A loop without a budget.
LoopContinues_Always(i) == TRUE

\* for (let i = 0; i < maxIterations; i++)
LoopContinues_Inclusive(i) == i <= maxIterations

LoopContinues(i) == i < maxIterations

\* The names of getAllTools.
ToolNames == {"create_reminder", "list_reminders", "update_reminder", "delete_reminder"}

\* Entries of the message list handed to the Completion Client.
PromptMessage(role, content) ==
    [role |-> role, content |-> content, calls |-> <<>>, output |-> NoOutput]

SystemMessage == PromptMessage("system", <<"p", "o", "l", "i", "c", "y">>)

HumanMessage(content) == PromptMessage("user", content)

AIMessage(content) == PromptMessage("assistant", content)

ToolMessage(output) ==
    [role |-> "tool", content |-> <<>>, calls |-> <<>>, output |-> output]

\* history.slice(0, -1)
SliceButLast(seq) == SubSeq(seq, 1, Len(seq) - 1)

\* [system, ...history.slice(0, -1).map(...), new HumanMessage(message)], with
\* history read from the conversation object the run resolved.
BuildMessages(conversation, message) ==
    LET history == SliceButLast(FormattedHistory(conversation))
    IN  <<SystemMessage>>
        \o [j \in DOMAIN history |->
               IF history[j].role = "user" THEN HumanMessage(history[j].content)
               ELSE IF history[j].role = "assistant"
               THEN AIMessage(history[j].content)
               ELSE PromptMessage("system", history[j].content)]
        \o <<HumanMessage(message)>>

\* A completion is a stream of chunks, each with text and tool call parts.
Chunk(content, calls) == [content |-> content, calls |-> calls]

RECURSIVE GatheredContent(_)
GatheredContent(chunks) ==
    IF chunks = <<>> THEN <<>>
    ELSE Head(chunks).content \o GatheredContent(Tail(chunks))

RECURSIVE GatheredCalls(_)
GatheredCalls(chunks) ==
    IF chunks = <<>> THEN <<>>
    ELSE Head(chunks).calls \o GatheredCalls(Tail(chunks))

\* gathered: the chunks concatenated into one assistant message.
Gathered(chunks) ==
    [role |-> "assistant", content |-> GatheredContent(chunks),
     calls |-> GatheredCalls(chunks), output |-> NoOutput]

Event(type, text, name, output) ==
    [type |-> type, text |-> text, name |-> name, output |-> output]

\* A token event per chunk that has text, tool call part or not.
TokenEvents_All(chunks) ==
    LET HasText(chunk) == chunk.content # <<>>
        texts == SelectSeq(chunks, HasText)
    IN  [j \in DOMAIN texts |-> Event("token", texts[j].content, "", NoOutput)]

\* A token event per chunk that has text and no tool call part.
RECURSIVE TokenEvents(_)
TokenEvents(chunks) ==
    IF chunks = <<>> THEN <<>>
    ELSE (IF Head(chunks).content # <<>> /\ Head(chunks).calls = <<>>
          THEN <<Event("token", Head(chunks).content, "", NoOutput)>>
          ELSE <<>>)
         \o TokenEvents(Tail(chunks))

\* tool.invoke(toolCall.args); list_reminders is proposed by no completion of
\* this model.
InvokeTool(call, store, ctx, t, findOk, writeOk) ==
    CASE call.name = "create_reminder" ->
           IF call.args.title = None \/ call.args.scheduledFor = None
           THEN [store |-> store, out |-> Thrown]
           ELSE CreateReminderTool(store, ctx, call.args.title[1],
                                   call.args.description,
                                   call.args.scheduledFor[1], t, writeOk)
      [] call.name = "update_reminder" ->
           UpdateReminderTool(store, ctx.userId, call.args.reminderId,
                              call.args.title, call.args.description,
                              call.args.scheduledFor, t, findOk, writeOk)
      [] call.name = "delete_reminder" ->
           DeleteReminderTool(store, ctx.userId, call.args.reminderId, t,
                              findOk, writeOk)

\* A dispatch that stops at the first call whose output is a failure.
RECURSIVE DispatchTools_StopOnFailure(_, _, _, _, _, _, _)
DispatchTools_StopOnFailure(calls, store, ctx, t, findOk, writeOk, invoked) ==
    IF calls = <<>> THEN [store |-> store, invoked |-> invoked]
    ELSE IF Head(calls).name \notin ToolNames
    THEN DispatchTools_StopOnFailure(Tail(calls), store, ctx, t, findOk, writeOk, invoked)
    ELSE LET res == InvokeTool(Head(calls), store, ctx, t, findOk, writeOk)
         IN  IF ~res.out.success THEN [store |-> res.store, invoked |-> invoked]
             ELSE DispatchTools_StopOnFailure(Tail(calls), res.store, ctx, t, findOk,
                                              writeOk,
                                              Append(invoked, [name |-> Head(calls).name,
                                                               output |-> res.out]))

\* for (const toolCall of tool_calls): the calls whose name is a tool's are
\* invoked in order, each on the store the one before left; the others are
\* skipped.
RECURSIVE DispatchTools(_, _, _, _, _, _, _)
DispatchTools(calls, store, ctx, t, findOk, writeOk, invoked) ==
    IF calls = <<>> THEN [store |-> store, invoked |-> invoked]
    ELSE IF Head(calls).name \notin ToolNames
    THEN DispatchTools(Tail(calls), store, ctx, t, findOk, writeOk, invoked)
    ELSE LET res == InvokeTool(Head(calls), store, ctx, t, findOk, writeOk)
         IN  DispatchTools(Tail(calls), res.store, ctx, t, findOk, writeOk,
                           Append(invoked, [name |-> Head(calls).name,
                                            output |-> res.out]))

\* tool_start, then tool_end with the output, per invoked call.
RECURSIVE ToolEvents(_)
ToolEvents(invoked) ==
    IF invoked = <<>> THEN <<>>
    ELSE <<Event("tool_start", <<>>, Head(invoked).name, NoOutput),
           Event("tool_end", <<>>, Head(invoked).name, Head(invoked).output)>>
         \o ToolEvents(Tail(invoked))

ToolMessages(invoked) == [j \in DOMAIN invoked |-> ToolMessage(invoked[j].output)]

\* A run of processMessageStream ("stream") or processMessage ("invoke"):
\* where it stands (pc), its arguments, the conversation object it resolved,
\* the message list, the loop counter, the Completion Client calls issued
\* (calls) and the list handed to the first (firstMessages), the answer being
\* built, and the events emitted.
IdleRun ==
    [pc |-> "idle", kind |-> "stream", userId |-> "u1", phoneNumber |-> <<>>,
     message |-> <<>>, conversationId |-> 0,
     conversation |-> NewConversation("u1", None, 0), messages |-> <<>>,
     i |-> 0, calls |-> 0, firstMessages |-> <<>>, finalResponse |-> <<>>,
     events |-> <<>>]

\* The other variant's run, conversation store and reminder store.
IdleTwin == [run |-> IdleRun, conversations |-> <<>>, reminders |-> <<>>]

\* The context the run's tools are bound to.
ToolContext(r) ==
    [userId |-> r.userId, conversationId |-> r.conversationId,
     phoneNumber |-> r.phoneNumber]

\* ----------------------------------------------------------- ChatController

\* An item written to the response: `data: <event>`, or `data: [DONE]`.
DataLine(event) == [data |-> "event", event |-> event]

Sentinel == [data |-> "[DONE]", event |-> Event("", <<>>, "", NoOutput)]

\* {type: 'error', error: 'Internal Server Error'}
ErrorEvent == Event("error", <<>>, "", Failure("Internal Server Error"))

\* The response of ChatController.processMessage to the request served by the
\* streaming run r.  Every event of the run is written as it is emitted, and
\* the first write sends the headers.  When the run returns, [DONE] is written
\* and the response ended; when it throws, a response whose headers are not
\* sent becomes a 500 JSON reply, and one that is streaming gets the error
\* event and is ended.
ChatResponse(r) ==
    LET written == [j \in DOMAIN r.events |-> DataLine(r.events[j])]
    IN  IF r.pc = "done"
        THEN [status |-> 200, stream |-> TRUE, ended |-> TRUE,
              items |-> Append(written, Sentinel)]
        ELSE IF r.pc = "failed"
        THEN IF written = <<>>
             THEN [status |-> 500, stream |-> FALSE, ended |-> TRUE, items |-> <<>>]
             ELSE [status |-> 200, stream |-> TRUE, ended |-> TRUE,
                   items |-> Append(written, DataLine(ErrorEvent))]
        ELSE [status |-> 200, stream |-> written # <<>>, ended |-> FALSE,
              items |-> written]

\* ------------------------------------------------------- ReminderScheduler

\* formatReminderMessage: the title, the description when it is non-empty,
\* and the scheduled time.
FormatReminderMessage(r) ==
    <<r.title>>
    \o (IF r.description # None /\ r.description[1] # <<>>
        THEN <<r.description[1]>> ELSE <<>>)
    \o <<r.scheduledFor>>

\* Tick slots: a tick of the running scheduler, and one that may overlap it.
TickIds == {"t1", "t2"}

\* A tick: its number (n), where it stands (pc, and i, the index in the loop
\* over due), the
\* result of its due query (queryOk, due), and what it has done so far: the
\* sends attempted (sends), the mark-as-sent writes attempted (marks).
\* failedBefore holds the ids whose send failed in earlier ticks of the slot.
IdleTick ==
    [n |-> 0, pc |-> "idle", i |-> 0, queryOk |-> TRUE, due |-> <<>>, sends |-> <<>>,
     marks |-> <<>>, failedBefore |-> {}]

FailedSends(tk) == {tk.sends[j].id : j \in {n \in DOMAIN tk.sends : ~tk.sends[n].ok}}

DueIds(tk) == {tk.due[j].id : j \in DOMAIN tk.due}

\* for (const reminder of dueReminders): the next one, or the end of the tick.
Advance(tk) ==
    IF tk.i < Len(tk.due)
    THEN [tk EXCEPT !.pc = "send", !.i = tk.i + 1]
    ELSE [tk EXCEPT !.pc = "done"]

\* A failure that leaves checkAndSendReminders as a thrown error.
AfterFailure_Throw(tk) == [tk EXCEPT !.pc = "thrown"]

AfterFailure_Abort(tk) == [tk EXCEPT !.pc = "done"]

\* catch (error) { Logger.error(...); } inside the loop: go on with the next.
AfterFailure(tk) == Advance(tk)


\* ------------------------------------------------------------------ actions

Init ==
    /\ now = 0
    /\ reminders = <<>>
    /\ toolOut = Merge(NoOutput, [op |-> "none"])
    /\ nCalls = 0
    /\ tick = [k \in TickIds |-> IdleTick]
    /\ nTicks = 0
    /\ delivered = [i \in 1..MaxReminders |-> 0]
    /\ conversations = <<>>
    /\ appender = [p \in Appenders |-> IdleAppender]
    /\ resolver = [p \in Resolvers |-> IdleResolver]
    /\ run = IdleRun
    /\ runLog = <<>>
    /\ twin = IdleTwin
    /\ object = IdleObject
    /\ otpStore = NoOtps
    /\ otpOut = NoVerdict

Elapse ==
    /\ now < MaxTime
    /\ now' = now + 1
    /\ UNCHANGED <<reminders, toolOut, nCalls, tick, nTicks, delivered, conversationVars, agentVars, serviceVars>>

CreateReminder(ctx, title, description, scheduledFor, dbOk) ==
    /\ nCalls < MaxCalls
    /\ Len(reminders) < MaxReminders
    /\ LET res == CreateReminderTool(reminders, ctx, title, description,
                                     scheduledFor, now, dbOk)
       IN  /\ reminders' = res.store
           /\ toolOut' = Merge(res.out, [op |-> "create_reminder"])
    /\ nCalls' = nCalls + 1
    /\ UNCHANGED <<now, tick, nTicks, delivered, conversationVars, agentVars, serviceVars>>

UpdateReminder(userId, reminderId, title, description, scheduledFor, findOk, writeOk) ==
    /\ nCalls < MaxCalls
    /\ LET res == UpdateReminderTool(reminders, userId, reminderId, title,
                                     description, scheduledFor, now, findOk, writeOk)
       IN  /\ reminders' = res.store
           /\ toolOut' = Merge(res.out, [op |-> "update_reminder"])
    /\ nCalls' = nCalls + 1
    /\ UNCHANGED <<now, tick, nTicks, delivered, conversationVars, agentVars, serviceVars>>

DeleteReminder(userId, reminderId, findOk, writeOk) ==
    /\ nCalls < MaxCalls
    /\ LET res == DeleteReminderTool(reminders, userId, reminderId, now,
                                     findOk, writeOk)
       IN  /\ reminders' = res.store
           /\ toolOut' = Merge(res.out, [op |-> "delete_reminder"])
    /\ nCalls' = nCalls + 1
    /\ UNCHANGED <<now, tick, nTicks, delivered, conversationVars, agentVars, serviceVars>>

ListReminders(userId, status, findOk) ==
    /\ nCalls < MaxCalls
    /\ \E found \in FindByUserId(reminders, userId) :
          LET res == ListRemindersTool(reminders, userId, status, found, findOk)
          IN  /\ reminders' = res.store
              /\ toolOut' = Merge(res.out, [op |-> "list_reminders"])
    /\ nCalls' = nCalls + 1
    /\ UNCHANGED <<now, tick, nTicks, delivered, conversationVars, agentVars, serviceVars>>

\* create_reminder and update_reminder during which the clock moves on: the
\* schema checks the arguments at the start of tool.invoke, and func reaches
\* the store at the instant later.
CreateReminderSlowly(ctx, title, description, scheduledFor, later) ==
    /\ nCalls < MaxCalls
    /\ Len(reminders) < MaxReminders
    /\ later >= now
    /\ LET res == CreateReminderToolAt(reminders, ctx, title, description,
                                       scheduledFor, now, later, TRUE)
       IN  /\ reminders' = res.store
           /\ toolOut' = Merge(res.out, [op |-> "create_reminder"])
    /\ nCalls' = nCalls + 1
    /\ now' = later
    /\ UNCHANGED <<tick, nTicks, delivered, conversationVars, agentVars, serviceVars>>

UpdateReminderSlowly(userId, reminderId, title, description, scheduledFor, later) ==
    /\ nCalls < MaxCalls
    /\ later >= now
    /\ LET res == UpdateReminderToolAt(reminders, userId, reminderId, title,
                                       description, scheduledFor, now, later,
                                       TRUE, TRUE)
       IN  /\ reminders' = res.store
           /\ toolOut' = Merge(res.out, [op |-> "update_reminder"])
    /\ nCalls' = nCalls + 1
    /\ now' = later
    /\ UNCHANGED <<tick, nTicks, delivered, conversationVars, agentVars, serviceVars>>

\* checkAndSendReminders up to the loop: the due query, whose failure the outer
\* catch absorbs, and the early return on an empty result.
TickQuery(k, queryOk) ==
    /\ tick[k].pc \in {"idle", "done"}
    /\ nTicks < MaxTicks
    /\ nTicks' = nTicks + 1
    /\ LET fresh == [IdleTick EXCEPT
                        !.n = nTicks + 1,
                        !.failedBefore = tick[k].failedBefore \cup FailedSends(tick[k])]
       IN  tick' = [tick EXCEPT ![k] =
                       IF ~queryOk
                       THEN [fresh EXCEPT !.pc = "done", !.queryOk = FALSE]
                       ELSE Advance([fresh EXCEPT
                                        !.due = FindDueReminders(reminders, now)])]
    /\ UNCHANGED <<now, reminders, toolOut, nCalls, delivered, conversationVars, agentVars, serviceVars>>

\* sendReminder up to the SMS: format the message of the reminder as read by
\* the query and send it; a failure is rethrown, caught by the loop, and the
\* loop goes on.
TickSend(k, sendOk) ==
    /\ tick[k].pc = "send"
    /\ LET r == tick[k].due[tick[k].i]
           sent == [id |-> r.id, to |-> r.doc.phoneNumber,
                    body |-> FormatReminderMessage(r.doc), ok |-> sendOk]
           logged == [tick[k] EXCEPT !.sends = Append(@, sent)]
       IN  /\ tick' = [tick EXCEPT ![k] =
                          IF sendOk THEN [logged EXCEPT !.pc = "mark"]
                          ELSE AfterFailure(logged)]
           /\ delivered' = IF sendOk
                           THEN [delivered EXCEPT
                                    ![r.id] = IF @ < MaxTicks THEN @ + 1 ELSE @]
                           ELSE delivered
    /\ UNCHANGED <<now, reminders, toolOut, nCalls, nTicks, conversationVars, agentVars, serviceVars>>

\* sendReminder after the SMS: markAsSent; a failure is rethrown, caught by
\* the loop, and the loop goes on.
TickMark(k, writeOk) ==
    /\ tick[k].pc = "mark"
    /\ LET r == tick[k].due[tick[k].i]
       IN  /\ reminders' = IF writeOk THEN MarkAsSent(reminders, r.id, now)
                           ELSE reminders
           /\ LET logged == [tick[k] EXCEPT
                                !.marks = Append(@, [id |-> r.id, ok |-> writeOk])]
              IN  tick' = [tick EXCEPT ![k] =
                              IF writeOk THEN Advance(logged)
                              ELSE AfterFailure(logged)]
    /\ UNCHANGED <<now, toolOut, nCalls, nTicks, delivered, conversationVars, agentVars, serviceVars>>

\* appendMessage up to its write: findById, then addMessage on the loaded
\* copy. A lookup that throws ends the call, and so does an unknown id.
AppendLoad(p, id, role, content, findOk) ==
    /\ appender[p].pc = "idle"
    /\ appender' = [appender EXCEPT ![p] =
          IF ~findOk
          THEN [@ EXCEPT !.pc = "done", !.id = id, !.role = role,
                         !.content = content, !.result = "thrown"]
          ELSE IF id \notin DOMAIN conversations
          THEN [@ EXCEPT !.pc = "done", !.id = id, !.role = role,
                         !.content = content, !.result = "null"]
          ELSE [@ EXCEPT !.pc = "loaded", !.id = id, !.role = role,
                         !.content = content,
                         !.loaded = AddMessage(conversations[id], role, content, now)]]
    /\ UNCHANGED <<now, reminderVars, conversations, resolver, agentVars, serviceVars>>

\* appendMessage's write: updateOne with the loaded copy's fields.
AppendPersist(p, writeOk) ==
    /\ appender[p].pc = "loaded"
    /\ conversations' = IF writeOk
                        THEN PersistMessages(conversations, appender[p].id,
                                             appender[p].loaded)
                        ELSE conversations
    /\ appender' = [appender EXCEPT ![p].pc = "done",
                                    ![p].result = IF writeOk THEN "appended"
                                                  ELSE "thrown"]
    /\ UNCHANGED <<now, reminderVars, resolver, agentVars, serviceVars>>

\* getOrCreateForUser up to its insert: findByPhoneNumber when a phone number
\* is given; a conversation found is returned, a lookup that throws ends the
\* call.
GetOrCreateFind(p, userId, phoneNumber, findOk) ==
    /\ resolver[p].pc \in {"idle", "done"}
    /\ resolver[p].n < MaxRuns
    /\ LET begun == [resolver[p] EXCEPT !.userId = userId,
                                        !.phoneNumber = phoneNumber,
                                        !.n = @ + 1, !.id = 0]
           existing == ConversationsOf(conversations, phoneNumber)
       IN  resolver' = [resolver EXCEPT ![p] =
              IF phoneNumber # <<>> /\ ~findOk
              THEN [begun EXCEPT !.pc = "done"]
              ELSE IF phoneNumber # <<>> /\ existing # {}
              THEN [begun EXCEPT
                       !.pc = "done",
                       !.id = IF ConversationLoads(conversations, Lowest(existing))
                              THEN Lowest(existing) ELSE 0]
              ELSE [begun EXCEPT !.pc = "create"]]
    /\ UNCHANGED <<now, reminderVars, conversations, appender, agentVars, serviceVars>>

\* getOrCreateForUser's insert: new Conversation(...), which throws on a phone
\* number that is not E.164, then create.
GetOrCreateInsert(p, dbOk) ==
    /\ resolver[p].pc = "create"
    /\ LET conversation == NewConversation(resolver[p].userId,
                                           Some(resolver[p].phoneNumber), now)
           stored == ConversationSchemaOk(conversation) /\ dbOk
       IN  /\ conversations' = IF stored THEN Append(conversations, conversation)
                               ELSE conversations
           /\ resolver' = [resolver EXCEPT
                              ![p].pc = "done",
                              ![p].id = IF stored THEN Len(conversations) + 1
                                        ELSE 0]
    /\ UNCHANGED <<now, reminderVars, appender, agentVars, serviceVars>>

\* The entry a run leaves in runLog when it ends.
Ended(r, outcome) ==
    [conversationId |-> r.conversationId, message |-> r.message,
     outcome |-> outcome, answer |-> r.finalResponse]

\* A run that emits nothing when it has resolved its conversation.
ConversationIdEvent_None(kind, id) == <<>>

\* onEvent({type: 'conversation_id', data: conversation._id}), of the
\* streaming run only.
ConversationIdEvent(kind, id) ==
    IF kind = "stream"
    THEN <<Event("conversation_id", <<>>, "", Success(id))>>
    ELSE <<>>

\* The beginning of a run: the conversation is resolved by id, or by the
\* caller's phone number; the streaming run emits its id.  The result is the
\* run, the conversation store, and what the run logs if it ended.
StartStep(kind, userId, phoneNumber, message, conversationId, findOk, store, t) ==
    LET begun == [IdleRun EXCEPT !.kind = kind, !.userId = userId,
                                 !.phoneNumber = phoneNumber,
                                 !.message = message]
        found == IF conversationId # None
                 THEN [store |-> store, id |-> conversationId[1],
                       ok |-> /\ conversationId[1] \in DOMAIN store
                              /\ ConversationLoads(store, conversationId[1])]
                 ELSE GetOrCreateForUser(store, userId, phoneNumber, t)
    IN  IF findOk /\ found.ok
        THEN [run |-> [begun EXCEPT
                          !.pc = "resolved",
                          !.conversationId = found.id,
                          !.conversation = found.store[found.id],
                          !.events = ConversationIdEvent(kind, found.id)],
              conversations |-> found.store,
              log |-> <<>>]
        ELSE [run |-> [begun EXCEPT !.pc = "failed"],
              conversations |-> store,
              log |-> <<Ended(begun, "failed")>>]

\* appendMessage(conversation._id, 'user', message), then the message list is
\* built from the conversation object resolved before it.
AppendUserStep(r, store, findOk, writeOk, t) ==
    IF findOk /\ writeOk /\ ConversationLoads(store, r.conversationId)
    THEN [run |-> [r EXCEPT
                      !.pc = IF LoopContinues(0) THEN "loop" ELSE "finish",
                      !.messages = BuildMessages(r.conversation, r.message)],
          conversations |-> AppendMessage(store, r.conversationId, "user",
                                          r.message, t),
          log |-> <<>>]
    ELSE [run |-> [r EXCEPT !.pc = "failed"],
          conversations |-> store,
          log |-> <<Ended(r, "failed")>>]

\* One iteration of the loop: a Completion Client call that answers with the
\* chunks, or throws; then the tool calls it proposed.
RoundStep(r, store, chunks, llmOk, findOk, writeOk, t) ==
    LET called == [r EXCEPT
                      !.calls = @ + 1,
                      !.firstMessages = IF r.calls = 0 THEN r.messages ELSE @]
        gathered == Gathered(chunks)
        res == DispatchTools(gathered.calls, store, ToolContext(r), t,
                             findOk, writeOk, <<>>)
        streamed == [called EXCEPT
                        !.finalResponse = @ \o gathered.content,
                        !.events = @ \o TokenEvents(chunks)]
    IN  IF ~llmOk
        THEN [run |-> [called EXCEPT !.pc = "failed"], reminders |-> store,
              log |-> <<Ended(r, "failed")>>]
        ELSE IF r.kind = "stream" /\ chunks = <<>>
        THEN [run |-> [called EXCEPT !.pc = "finish"], reminders |-> store,
              log |-> <<>>]
        ELSE IF gathered.calls # <<>>
        THEN [run |-> [(IF r.kind = "stream" THEN streamed ELSE called) EXCEPT
                  !.messages = @ \o <<gathered>> \o ToolMessages(res.invoked),
                  !.finalResponse = IF r.kind = "stream" THEN <<>> ELSE @,
                  !.events = IF r.kind = "stream"
                             THEN @ \o ToolEvents(res.invoked) ELSE @,
                  !.i = @ + 1,
                  !.pc = IF LoopContinues(r.i + 1) THEN "loop" ELSE "finish"],
              reminders |-> res.store,
              log |-> <<>>]
        ELSE [run |-> [(IF r.kind = "stream" THEN streamed ELSE called) EXCEPT
                  !.messages = @ \o <<gathered>>,
                  !.finalResponse = IF r.kind = "stream" THEN @
                                    ELSE gathered.content,
                  !.pc = "finish"],
              reminders |-> store,
              log |-> <<>>]

\* After the loop: the streaming run stores the answer if it is not empty, the
\* other run stores it as it is.
FinishStep(r, store, findOk, writeOk, t) ==
    LET stores == r.kind = "invoke" \/ r.finalResponse # <<>>
        ok == findOk /\ writeOk /\ ConversationLoads(store, r.conversationId)
        outcome == IF stores /\ ~ok THEN "failed"
                   ELSE IF r.finalResponse # <<>> THEN "answered"
                   ELSE "empty"
    IN  [run |-> [r EXCEPT !.pc = IF stores /\ ~ok THEN "failed" ELSE "done"],
         conversations |-> IF stores /\ ok
                           THEN AppendMessage(store, r.conversationId,
                                              "assistant", r.finalResponse, t)
                           ELSE store,
         log |-> <<Ended(r, outcome)>>]

StartRun(kind, userId, phoneNumber, message, conversationId, findOk) ==
    /\ run.pc \in {"idle", "done", "failed"}
    /\ Len(runLog) < MaxRuns
    /\ LET step == StartStep(kind, userId, phoneNumber, message, conversationId,
                             findOk, conversations, now)
       IN  /\ run' = step.run
           /\ conversations' = step.conversations
           /\ runLog' = runLog \o step.log
    /\ UNCHANGED <<now, reminderVars, appender, resolver, twin, serviceVars>>

AppendUser(findOk, writeOk) ==
    /\ run.pc = "resolved"
    /\ LET step == AppendUserStep(run, conversations, findOk, writeOk, now)
       IN  /\ run' = step.run
           /\ conversations' = step.conversations
           /\ runLog' = runLog \o step.log
    /\ UNCHANGED <<now, reminderVars, appender, resolver, twin, serviceVars>>

Round(chunks, llmOk, findOk, writeOk) ==
    /\ run.pc = "loop"
    /\ LET step == RoundStep(run, reminders, chunks, llmOk, findOk, writeOk, now)
       IN  /\ Len(step.reminders) <= MaxReminders
           /\ run' = step.run
           /\ reminders' = step.reminders
           /\ runLog' = runLog \o step.log
    /\ UNCHANGED <<now, toolOut, nCalls, tick, nTicks, delivered, conversationVars, twin, serviceVars>>

Finish(findOk, writeOk) ==
    /\ run.pc = "finish"
    /\ LET step == FinishStep(run, conversations, findOk, writeOk, now)
       IN  /\ run' = step.run
           /\ conversations' = step.conversations
           /\ runLog' = runLog \o step.log
    /\ UNCHANGED <<now, reminderVars, appender, resolver, twin, serviceVars>>

\* The store operations of a tool call that fail: none, the lookup, the write.
DbOutcomes == {<<TRUE, TRUE>>, <<FALSE, TRUE>>, <<TRUE, FALSE>>}

Next ==
    \/ Elapse
    \/ \E ctx \in Contexts, title \in TitleInputs, description \in DescriptionInputs,
          scheduledFor \in DateInputs, dbOk \in BOOLEAN :
          CreateReminder(ctx, title, description, scheduledFor, dbOk)
    \/ \E userId \in Users, reminderId \in IdInputs, title \in NewTitleInputs,
          description \in NewDescriptionInputs, scheduledFor \in Optional(DateInputs),
          db \in DbOutcomes :
          UpdateReminder(userId, reminderId, title, description, scheduledFor,
                         db[1], db[2])
    \/ \E userId \in Users, reminderId \in IdInputs, db \in DbOutcomes :
          DeleteReminder(userId, reminderId, db[1], db[2])
    \/ \E queryOk \in BOOLEAN : TickQuery("t1", queryOk)
    \/ \E sendOk \in BOOLEAN : TickSend("t1", sendOk)
    \/ \E writeOk \in BOOLEAN : TickMark("t1", writeOk)

Spec == Init /\ [][Next]_vars

\* Calls of appendMessage by callers that run at once, on a store that holds
\* an empty conversation and a started one.
InitAppend ==
    /\ now = 0
    /\ reminders = <<>>
    /\ toolOut = Merge(NoOutput, [op |-> "none"])
    /\ nCalls = 0
    /\ tick = [k \in TickIds |-> IdleTick]
    /\ nTicks = 0
    /\ delivered = [i \in 1..MaxReminders |-> 0]
    /\ conversations = <<NewConversation("u1", Some(PhoneA), 0), StartedConversation>>
    /\ appender = [p \in Appenders |-> IdleAppender]
    /\ resolver = [p \in Resolvers |-> IdleResolver]
    /\ run = IdleRun
    /\ runLog = <<>>
    /\ twin = IdleTwin
    /\ object = IdleObject
    /\ otpStore = NoOtps
    /\ otpOut = NoVerdict

NextAppend ==
    \/ Elapse
    \/ \E p \in Appenders, id \in 1..3, role \in Roles, content \in Texts,
          findOk \in BOOLEAN :
          AppendLoad(p, id, role, content, findOk)
    \/ \E p \in Appenders, writeOk \in BOOLEAN : AppendPersist(p, writeOk)

SpecAppend == InitAppend /\ [][NextAppend]_vars

\* Tool calls a completion proposes: a reminder in the future, the
\* cancellation of reminder 1, and a tool that does not exist.
NoArgs == [reminderId |-> NotAnId, title |-> None, description |-> None, scheduledFor |-> None]

CallCreate ==
    [name |-> "create_reminder",
     args |-> [NoArgs EXCEPT !.title = Some(<<"a">>),
                             !.scheduledFor = Some(DateText(MaxTime + 1))]]

CallDelete ==
    [name |-> "delete_reminder", args |-> [NoArgs EXCEPT !.reminderId = IdText(1)]]

CallUnknown == [name |-> "send_email", args |-> NoArgs]

\* Completions: an answer in two chunks with an empty chunk between them, a
\* stream without chunks, a tool call, and text followed by two tool calls,
\* one in the chunk that carries text.
Completions ==
    { <<Chunk(<<"o">>, <<>>), Chunk(<<>>, <<>>), Chunk(<<"k">>, <<>>)>>,
      <<>>,
      <<Chunk(<<>>, <<CallCreate>>)>>,
      <<Chunk(<<"t">>, <<>>), Chunk(<<"r">>, <<CallDelete>>), Chunk(<<>>, <<CallUnknown>>)>> }

\* Callers of the agent: a user with a phone number, and the web chat's user
\* without one, for whom '' is passed.
Callers == {<<"u1", PhoneA>>, <<"u2", <<>>>>}

\* Runs of the Agent Loop, one after another, on an empty store.
InitAgent ==
    /\ now = 0
    /\ reminders = <<>>
    /\ toolOut = Merge(NoOutput, [op |-> "none"])
    /\ nCalls = 0
    /\ tick = [k \in TickIds |-> IdleTick]
    /\ nTicks = 0
    /\ delivered = [i \in 1..MaxReminders |-> 0]
    /\ conversations = <<>>
    /\ appender = [p \in Appenders |-> IdleAppender]
    /\ resolver = [p \in Resolvers |-> IdleResolver]
    /\ run = IdleRun
    /\ runLog = <<>>
    /\ twin = IdleTwin
    /\ object = IdleObject
    /\ otpStore = NoOtps
    /\ otpOut = NoVerdict

NextAgent ==
    \/ (run.pc # "loop" /\ Elapse)
    \/ \E kind \in {"stream", "invoke"}, caller \in Callers, message \in Texts,
          conversationId \in {None, Some(1), Some(2)}, findOk \in BOOLEAN :
          StartRun(kind, caller[1], caller[2], message, conversationId, findOk)
    \/ \E db \in DbOutcomes : AppendUser(db[1], db[2])
    \/ \E chunks \in Completions, llmOk \in BOOLEAN :
          Round(chunks, llmOk, TRUE, TRUE)
    \/ \E db \in DbOutcomes : Finish(db[1], db[2])

SpecAgent == InitAgent /\ [][NextAgent]_vars

\* Tool calls that fail: a reminder at the clock's last instant, which is in
\* the future only before it; a change to reminder 2, which may not exist.
CallCreateSoon ==
    [name |-> "create_reminder",
     args |-> [NoArgs EXCEPT !.title = Some(<<"a">>),
                             !.scheduledFor = Some(DateText(MaxTime))]]

CallUpdate ==
    [name |-> "update_reminder",
     args |-> [NoArgs EXCEPT !.reminderId = IdText(2), !.title = Some(<<"b">>)]]

ToolCompletions ==
    { <<Chunk(<<"o">>, <<>>)>>,
      <<Chunk(<<>>, <<CallCreateSoon>>)>>,
      <<Chunk(<<>>, <<CallDelete, CallUpdate>>), Chunk(<<>>, <<CallUnknown>>)>> }

\* One run of the Agent Loop on a store that holds a pending reminder of
\* another user, with tool calls whose store operations may fail.
InitRun ==
    /\ now = 0
    /\ reminders = RepoCreate(<<>>, NewReminder([userId |-> "u2", conversationId |-> 9,
                                                 phoneNumber |-> PhoneB],
                                                <<"a">>, None, DateText(MaxTime), 0), 0)
    /\ toolOut = Merge(NoOutput, [op |-> "none"])
    /\ nCalls = 0
    /\ tick = [k \in TickIds |-> IdleTick]
    /\ nTicks = 0
    /\ delivered = [i \in 1..MaxReminders |-> 0]
    /\ conversations = <<>>
    /\ appender = [p \in Appenders |-> IdleAppender]
    /\ resolver = [p \in Resolvers |-> IdleResolver]
    /\ run = IdleRun
    /\ runLog = <<>>
    /\ twin = IdleTwin
    /\ object = IdleObject
    /\ otpStore = NoOtps
    /\ otpOut = NoVerdict

NextRun ==
    \/ (run.pc # "loop" /\ Elapse)
    \/ \E kind \in {"stream", "invoke"}, caller \in Callers, message \in Texts :
          /\ runLog = <<>>
          /\ StartRun(kind, caller[1], caller[2], message, None, TRUE)
    \/ AppendUser(TRUE, TRUE)
    \/ \E chunks \in ToolCompletions, db \in DbOutcomes :
          Round(chunks, TRUE, db[1], db[2])
    \/ Finish(TRUE, TRUE)

SpecRun == InitRun /\ [][NextRun]_vars

\* The scheduler ticking for ever: cron starts a tick every interval, so the
\* count of ticks, which only bounds the other specifications, starts again
\* when it is used up.
Recount ==
    /\ nTicks = MaxTicks
    /\ tick["t1"].pc \in {"idle", "done"}
    /\ nTicks' = 0
    /\ UNCHANGED <<now, reminders, toolOut, nCalls, tick, delivered, conversationVars, agentVars, serviceVars>>

NextLive ==
    \/ Elapse
    \/ \E ctx \in Contexts :
          CreateReminder(ctx, <<"a">>, None, DateText(MaxTime), TRUE)
    \/ \E userId \in Users, reminderId \in IdInputs :
          UpdateReminder(userId, reminderId, None, None,
                         Some(DateText(MaxTime)), TRUE, TRUE)
    \/ \E userId \in Users, reminderId \in IdInputs :
          DeleteReminder(userId, reminderId, TRUE, TRUE)
    \/ \E queryOk \in BOOLEAN : TickQuery("t1", queryOk)
    \/ \E sendOk \in BOOLEAN : TickSend("t1", sendOk)
    \/ \E writeOk \in BOOLEAN : TickMark("t1", writeOk)
    \/ Recount

\* Time passes, ticks keep coming, and each of their steps, the due query, the
\* send and the write, succeeds again and again.
SpecLive ==
    /\ Init
    /\ [][NextLive]_vars
    /\ WF_vars(Elapse)
    /\ WF_vars(Recount)
    /\ SF_vars(TickQuery("t1", TRUE))
    /\ SF_vars(TickSend("t1", TRUE))
    /\ SF_vars(TickMark("t1", TRUE))

\* Two scheduler instances, t1 and t2, ticking on the same store.
NextTwo ==
    \/ Elapse
    \/ \E ctx \in Contexts, scheduledFor \in DateInputs :
          CreateReminder(ctx, <<"a">>, None, scheduledFor, TRUE)
    \/ \E k \in TickIds, queryOk \in BOOLEAN : TickQuery(k, queryOk)
    \/ \E k \in TickIds, sendOk \in BOOLEAN : TickSend(k, sendOk)
    \/ \E k \in TickIds, writeOk \in BOOLEAN : TickMark(k, writeOk)

SpecTwo == Init /\ [][NextTwo]_vars

\* Message texts around the title's cut: one line of 0, 1, 49, 50, 51 and 60
\* characters, and the same followed by a second line.
LineLengths == {0, 1, TitleCut - 1, TitleCut, TitleCut + 1, TitleCut + 10}

TitleTexts ==
    {Repeat("x", n) : n \in LineLengths}
        \cup {Repeat("x", n) \o <<Newline, "y">> : n \in LineLengths}

\* appendMessage, one call after another.
Append1(id, role, content) ==
    /\ id \in DOMAIN conversations
    /\ Len(conversations[id].messages) < MaxMessages
    /\ conversations' = AppendMessage(conversations, id, role, content, now)
    /\ UNCHANGED <<now, reminderVars, appender, resolver, agentVars, serviceVars>>

\* Appends to a new conversation.
InitTitle ==
    /\ now = 0
    /\ reminders = <<>>
    /\ toolOut = Merge(NoOutput, [op |-> "none"])
    /\ nCalls = 0
    /\ tick = [k \in TickIds |-> IdleTick]
    /\ nTicks = 0
    /\ delivered = [i \in 1..MaxReminders |-> 0]
    /\ conversations = <<NewConversation("u1", Some(PhoneA), 0)>>
    /\ appender = [p \in Appenders |-> IdleAppender]
    /\ resolver = [p \in Resolvers |-> IdleResolver]
    /\ run = IdleRun
    /\ runLog = <<>>
    /\ twin = IdleTwin
    /\ object = IdleObject
    /\ otpStore = NoOtps
    /\ otpOut = NoVerdict

NextTitle ==
    \/ Elapse
    \/ \E role \in Roles, content \in TitleTexts : Append1(1, role, content)

SpecTitle == InitTitle /\ [][NextTitle]_vars

\* The two variants side by side: a streaming run (run, conversations,
\* reminders) and a non-streaming run (twin) take the same arguments, start
\* from the same stores and are fed the same completions, step by step.
TwinStart(userId, phoneNumber, message) ==
    /\ run.pc = "idle"
    /\ LET a == StartStep("stream", userId, phoneNumber, message, None, TRUE,
                          conversations, now)
           b == StartStep("invoke", userId, phoneNumber, message, None, TRUE,
                          twin.conversations, now)
       IN  /\ run' = a.run
           /\ conversations' = a.conversations
           /\ runLog' = runLog \o a.log
           /\ twin' = [twin EXCEPT !.run = b.run, !.conversations = b.conversations]
    /\ UNCHANGED <<now, reminderVars, appender, resolver, serviceVars>>

TwinAppendUser ==
    /\ run.pc = "resolved"
    /\ twin.run.pc = "resolved"
    /\ LET a == AppendUserStep(run, conversations, TRUE, TRUE, now)
           b == AppendUserStep(twin.run, twin.conversations, TRUE, TRUE, now)
       IN  /\ run' = a.run
           /\ conversations' = a.conversations
           /\ runLog' = runLog \o a.log
           /\ twin' = [twin EXCEPT !.run = b.run, !.conversations = b.conversations]
    /\ UNCHANGED <<now, reminderVars, appender, resolver, serviceVars>>

TwinRound(chunks, llmOk) ==
    /\ run.pc = "loop"
    /\ twin.run.pc = "loop"
    /\ LET a == RoundStep(run, reminders, chunks, llmOk, TRUE, TRUE, now)
           b == RoundStep(twin.run, twin.reminders, chunks, llmOk, TRUE, TRUE, now)
       IN  /\ Len(a.reminders) <= MaxReminders
           /\ Len(b.reminders) <= MaxReminders
           /\ run' = a.run
           /\ reminders' = a.reminders
           /\ runLog' = runLog \o a.log
           /\ twin' = [twin EXCEPT !.run = b.run, !.reminders = b.reminders]
    /\ UNCHANGED <<now, toolOut, nCalls, tick, nTicks, delivered, conversationVars, serviceVars>>

TwinFinish ==
    /\ run.pc = "finish"
    /\ twin.run.pc = "finish"
    /\ LET a == FinishStep(run, conversations, TRUE, TRUE, now)
           b == FinishStep(twin.run, twin.conversations, TRUE, TRUE, now)
       IN  /\ run' = a.run
           /\ conversations' = a.conversations
           /\ runLog' = runLog \o a.log
           /\ twin' = [twin EXCEPT !.run = b.run, !.conversations = b.conversations]
    /\ UNCHANGED <<now, reminderVars, appender, resolver, serviceVars>>

NextTwin ==
    \/ (run.pc # "loop" /\ Elapse)
    \/ \E caller \in Callers, message \in Texts :
          TwinStart(caller[1], caller[2], message)
    \/ TwinAppendUser
    \/ \E chunks \in Completions, llmOk \in BOOLEAN : TwinRound(chunks, llmOk)
    \/ TwinFinish

SpecTwin == InitAgent /\ [][NextTwin]_vars

\* ---------------------------------------------------- listing the reminders
\* Reminders of several users are created at several times, cancelled and
\* sent, and listed.

NextList ==
    \/ Elapse
    \/ \E ctx \in Contexts, scheduledFor \in DateInputs :
          CreateReminder(ctx, <<"a">>, None, scheduledFor, TRUE)
    \/ \E userId \in Users, reminderId \in IdInputs :
          DeleteReminder(userId, reminderId, TRUE, TRUE)
    \/ \E userId \in Users, status \in StatusInputs, findOk \in BOOLEAN :
          ListReminders(userId, status, findOk)
    \/ TickQuery("t1", TRUE)
    \/ TickSend("t1", TRUE)
    \/ TickMark("t1", TRUE)

SpecList == Init /\ [][NextList]_vars

\* -------------------------------------------- tool calls that take time
\* Reminders are created and rescheduled by calls during which the clock may
\* move on.

NextSlow ==
    \/ Elapse
    \/ \E ctx \in Contexts, scheduledFor \in DateInputs, later \in Instants :
          CreateReminderSlowly(ctx, <<"a">>, None, scheduledFor, later)
    \/ \E userId \in Users, reminderId \in IdInputs, title \in NewTitleInputs,
          scheduledFor \in Optional(DateInputs), later \in Instants :
          UpdateReminderSlowly(userId, reminderId, title, None, scheduledFor, later)

SpecSlow == Init /\ [][NextSlow]_vars

\* --------------------------------------------- resolving the conversation
\* Two callers get or create conversations, for users with and without a
\* phone number, and their calls may overlap.

NextResolve ==
    \/ Elapse
    \/ \E p \in Resolvers, caller \in Callers \cup {<<"u2", PhoneB>>},
          findOk \in BOOLEAN :
          GetOrCreateFind(p, caller[1], caller[2], findOk)
    \/ \E p \in Resolvers, dbOk \in BOOLEAN : GetOrCreateInsert(p, dbOk)

SpecResolve == InitAgent /\ [][NextResolve]_vars

\* ------------------------------------------------------ a run to its end
\* One run of either variant, whose store operations and Completion Client
\* calls return or fail, and whose steps keep being taken.

RunStep ==
    \/ \E db \in DbOutcomes : AppendUser(db[1], db[2])
    \/ \E chunks \in Completions, llmOk \in BOOLEAN :
          Round(chunks, llmOk, TRUE, TRUE)
    \/ \E db \in DbOutcomes : Finish(db[1], db[2])

NextHalt ==
    \/ \E kind \in {"stream", "invoke"}, caller \in Callers, message \in Texts,
          conversationId \in {None, Some(1)}, findOk \in BOOLEAN :
          /\ runLog = <<>>
          /\ StartRun(kind, caller[1], caller[2], message, conversationId, findOk)
    \/ RunStep

SpecHalt == InitAgent /\ [][NextHalt]_vars /\ WF_vars(RunStep)

\* ------------------------------------------------------- the Reminder object
\* The objects the constructor lets through: fromDocument of any stored status.
ObjectInputs ==
    { [NewReminder(ctx, <<"a">>, description, DateText(t), 0) EXCEPT !.status = status] :
        ctx \in {c \in Contexts : IsE164(c.phoneNumber)},
        description \in {None, Some(<<"d">>)},
        t \in 0..(MaxTime + 1),
        status \in {"pending", "sent", "cancelled"} }

InitObject ==
    /\ now = 0
    /\ reminders = <<>>
    /\ toolOut = Merge(NoOutput, [op |-> "none"])
    /\ nCalls = 0
    /\ tick = [k \in TickIds |-> IdleTick]
    /\ nTicks = 0
    /\ delivered = [i \in 1..MaxReminders |-> 0]
    /\ conversations = <<>>
    /\ appender = [p \in Appenders |-> IdleAppender]
    /\ resolver = [p \in Resolvers |-> IdleResolver]
    /\ run = IdleRun
    /\ runLog = <<>>
    /\ twin = IdleTwin
    /\ object \in {[reminder |-> r, last |-> "none"] : r \in ObjectInputs}
    /\ otpStore = NoOtps
    /\ otpOut = NoVerdict

ObjectMarkAsSent ==
    /\ object' = [reminder |-> ReminderMarkAsSent(object.reminder, now),
                  last |-> "markAsSent"]
    /\ UNCHANGED <<now, reminderVars, conversationVars, agentVars, otpStore, otpOut>>

ObjectCancel ==
    /\ object' = [reminder |-> ReminderCancel(object.reminder, now), last |-> "cancel"]
    /\ UNCHANGED <<now, reminderVars, conversationVars, agentVars, otpStore, otpOut>>

NextObject ==
    \/ Elapse
    \/ ObjectMarkAsSent
    \/ ObjectCancel

SpecObject == InitObject /\ [][NextObject]_vars

\* ---------------------------------------------------------- the OTP service
\* The clock moves to the minute an OTP stored now expires, or one past it.
Wait(d) ==
    /\ now + d <= MaxMinutes
    /\ now' = now + d
    /\ UNCHANGED <<reminderVars, conversationVars, agentVars, serviceVars>>

OtpStore(email, otp) ==
    /\ otpStore' = StoreOTP(otpStore, email, otp, now)
    /\ otpOut' = [valid |-> FALSE, error |-> "none", key |-> "none",
                  since |-> [otpOut.since EXCEPT ![ToLowerCase(email)] =
                      [Fresh EXCEPT !.stored = TRUE,
                                    !.expiresAt = now + OTP_EXPIRY_MINUTES]]]
    /\ UNCHANGED <<now, reminderVars, conversationVars, agentVars, object>>

OtpVerify(email, otp) ==
    /\ LET key == ToLowerCase(email)
           res == VerifyOTP(otpStore, email, otp, now)
       IN  /\ otpStore' = res.store
           /\ otpOut' =
                 [valid |-> res.out.valid, error |-> res.out.error, key |-> key,
                  since |-> [otpOut.since EXCEPT ![key] =
                      [@ EXCEPT !.valids = IF res.out.valid /\ @ < 2 THEN @ + 1 ELSE @,
                                !.fails = IF res.out.error = "invalid" /\ @ <= MAX_ATTEMPTS
                                          THEN @ + 1 ELSE @,
                                !.closed = @ \/ res.out.valid
                                             \/ res.out.error \in {"expired", "attempts"}]]]
    /\ UNCHANGED <<now, reminderVars, conversationVars, agentVars, object>>

OtpCleanup ==
    /\ otpStore' = CleanupExpiredOTPs(otpStore, now)
    /\ UNCHANGED <<now, reminderVars, conversationVars, agentVars, object, otpOut>>

NextOtp ==
    \/ \E d \in {OTP_EXPIRY_MINUTES, OTP_EXPIRY_MINUTES + 1} : Wait(d)
    \/ \E email \in Emails, otp \in Codes : OtpStore(email, otp)
    \/ \E email \in Emails, otp \in Codes : OtpVerify(email, otp)
    \/ OtpCleanup

SpecOtp == Init /\ [][NextOtp]_vars

\* ------------------------------------------------------------------- claims

\* C1: a reminder whose status is sent or cancelled never changes status
\* again, over any interleaving of the tool calls and the scheduler's steps.
C1_TerminalStatus ==
    [][\A id \in Ids(reminders) :
          reminders[id].status \in {"sent", "cancelled"}
              => reminders'[id].status = reminders[id].status]_vars

\* The sends of tick tk for reminder id.
SendsOf(tk, id) == {j \in DOMAIN tk.sends : tk.sends[j].id = id}

\* Reminder id's send by tick tk succeeded.
SendSucceeded(tk, id) == \E j \in SendsOf(tk, id) : tk.sends[j].ok

\* Tick tk sent reminder id exactly once, to the phone number and with the
\* formatted text of the record its due query read.
SentOnce(tk, id) ==
    /\ Cardinality(SendsOf(tk, id)) = 1
    /\ \A j \in SendsOf(tk, id) :
          /\ tk.due[j].id = id
          /\ tk.sends[j].to = tk.due[j].doc.phoneNumber
          /\ tk.sends[j].body = FormatReminderMessage(tk.due[j].doc)

MarkedOk(k) ==
    /\ tick[k].pc = "mark"
    /\ Len(tick'[k].marks) = Len(tick[k].marks) + 1
    /\ tick'[k].marks[Len(tick'[k].marks)].ok

SendFailed(k) ==
    /\ tick[k].pc = "send"
    /\ Len(tick'[k].sends) = Len(tick[k].sends) + 1
    /\ ~tick'[k].sends[Len(tick'[k].sends)].ok

\* The step is the due query of a new tick in slot k, and the query succeeded.
Queried(k) ==
    /\ nTicks' = nTicks + 1
    /\ tick'[k].n = nTicks'
    /\ tick'[k].queryOk

\* The step starts the tick that follows a finished tick of slot k.
NextTick(k) ==
    /\ tick[k].pc = "done"
    /\ nTicks' = nTicks + 1
    /\ tick'[k].n = nTicks'

\* C9 as stated: a reminder whose send failed in a tick is still pending when
\* the next tick starts, and that tick's due query selects it.
C9_SelectedByNextTick ==
    [][\A k \in TickIds :
          NextTick(k)
              => \A id \in FailedSends(tick[k]) :
                    /\ reminders[id].status = "pending"
                    /\ id \in DueIds(tick'[k])]_vars

\* C9, amended: a failed send leaves the reminder's record as it was; whatever
\* the sends that failed before, a due query that succeeds selects every
\* reminder that is pending and due at that instant; and a tick attempts a
\* send for every reminder its query selected before it ends.
C9_RetriedWhileDue ==
    /\ [][\A k \in TickIds : SendFailed(k) => reminders' = reminders]_vars
    /\ [][\A k \in TickIds :
             Queried(k)
                 => \A id \in Ids(reminders) :
                       IsDue(reminders[id], now) => id \in DueIds(tick'[k])]_vars
    /\ [](\A k \in TickIds :
             tick[k].pc = "done"
                 => \A id \in DueIds(tick[k]) : SendsOf(tick[k], id) # {})

\* A reminder whose send failed in an earlier tick and fails again in this one.
C9_Witness ==
    \E id \in Ids(reminders) :
        /\ id \in tick["t1"].failedBefore
        /\ id \in FailedSends(tick["t1"])
        /\ reminders[id].status = "pending"
        /\ delivered[id] = 0

\* C10: when a tick ends, it has attempted one send for every reminder its due
\* query returned, in the order returned, whichever sends or mark-as-sent
\* writes failed.
C10_AllAttempted ==
    \A k \in TickIds :
        tick[k].pc = "done"
            => /\ Len(tick[k].sends) = Len(tick[k].due)
               /\ \A j \in DOMAIN tick[k].due : tick[k].sends[j].id = tick[k].due[j].id

\* A tick of two due reminders: the first one's send or mark-as-sent write
\* failed, and the second one's send was attempted.
C10_Witness ==
    /\ tick["t1"].pc = "done"
    /\ Len(tick["t1"].due) = 2
    /\ Len(tick["t1"].sends) = 2
    /\ \/ ~tick["t1"].sends[1].ok
       \/ \E j \in DOMAIN tick["t1"].marks :
             tick["t1"].marks[j].id = tick["t1"].due[1].id /\ ~tick["t1"].marks[j].ok

\* The arguments of update_reminder that pass its schema.
ValidUpdateArgs ==
    {a \in [title : NewTitleInputs, description : NewDescriptionInputs,
            scheduledFor : Optional(DateInputs)] :
        UpdateArgsOk(a.title, a.description, a.scheduledFor, now)}

UpdateArgs ==
    [title : NewTitleInputs, description : NewDescriptionInputs,
     scheduledFor : Optional(DateInputs)]

\* The reminders of the store that userId does not own.
NotOwnedBy(userId) == {id \in Ids(reminders) : reminders[id].userId # userId}

UpdateDenied == Failure("You do not have permission to update this reminder.")

DeleteDenied == Failure("You do not have permission to delete this reminder.")

\* C5 as stated: in every reachable state, every update_reminder and
\* delete_reminder call by a user on a reminder of another user leaves the
\* store as it is and returns the permission failure.
C5_PermissionFailure ==
    \A userId \in Users : \A id \in NotOwnedBy(userId) : \A db \in DbOutcomes :
        /\ \A a \in UpdateArgs :
              LET res == UpdateReminderTool(reminders, userId, IdText(id), a.title,
                             a.description, a.scheduledFor, now, db[1], db[2])
              IN  res.store = reminders /\ res.out = UpdateDenied
        /\ LET res == DeleteReminderTool(reminders, userId, IdText(id), now,
                                         db[1], db[2])
           IN  res.store = reminders /\ res.out = DeleteDenied

\* C5, amended: such a call leaves the store as it is and does not succeed;
\* when its arguments pass the schema and its lookup of the reminder succeeds,
\* it returns the permission failure.
C5_NonOwnerDenied ==
    \A userId \in Users : \A id \in NotOwnedBy(userId) : \A db \in DbOutcomes :
        /\ \A a \in UpdateArgs :
              LET res == UpdateReminderTool(reminders, userId, IdText(id), a.title,
                             a.description, a.scheduledFor, now, db[1], db[2])
              IN  /\ res.store = reminders
                  /\ ~res.out.success
                  /\ a \in ValidUpdateArgs /\ db[1] => res.out = UpdateDenied
        /\ LET res == DeleteReminderTool(reminders, userId, IdText(id), now,
                                         db[1], db[2])
           IN  /\ res.store = reminders
               /\ ~res.out.success
               /\ db[1] => res.out = DeleteDenied

\* The last call was refused for want of permission, and the reminder of the
\* other user is as it was created.
C5_Witness ==
    /\ toolOut.error \in {UpdateDenied.error, DeleteDenied.error}
    /\ toolOut.op \in {"update_reminder", "delete_reminder"}
    /\ ~toolOut.success
    /\ Len(reminders) = 1
    /\ reminders[1].status = "pending"
    /\ reminders[1].title = <<"a">>

\* The result of create_reminder called now with these arguments.
Created(ctx, title, description, scheduledFor, dbOk) ==
    CreateReminderTool(reminders, ctx, title, description, scheduledFor, now, dbOk)

\* The call stored exactly one new reminder, pending, and succeeded.
StoredOne(res) ==
    /\ res.out.success
    /\ Len(res.store) = Len(reminders) + 1
    /\ SubSeq(res.store, 1, Len(reminders)) = reminders
    /\ res.store[Len(res.store)].status = "pending"

\* The call was rejected and stored nothing.
Rejected(res) == ~res.out.success /\ res.store = reminders

\* C6 as stated: create_reminder with a valid title is rejected when
\* scheduledFor is at or before the current instant, and otherwise stores one
\* pending reminder.
C6_FutureIffStored ==
    \A ctx \in Contexts, title \in {t \in TitleInputs : ValidTitle(t)},
       description \in DescriptionInputs, scheduledFor \in 0..(MaxTime + 1),
       dbOk \in BOOLEAN :
        LET res == Created(ctx, title, description, DateText(scheduledFor), dbOk)
        IN  IF scheduledFor <= now THEN Rejected(res) ELSE StoredOne(res)

\* C6, amended: create_reminder with a valid title is rejected when
\* scheduledFor is at or before the current instant or is no date; when
\* scheduledFor is after it, the description if any is valid, the bound phone
\* number is E.164 and the insert succeeds, it stores one pending reminder;
\* in every other case it is rejected and stores nothing.
C6_CreateDecided ==
    \A ctx \in Contexts, title \in {t \in TitleInputs : ValidTitle(t)},
       description \in DescriptionInputs, scheduledFor \in DateInputs,
       dbOk \in BOOLEAN :
        LET res == Created(ctx, title, description, scheduledFor, dbOk)
        IN  IF /\ scheduledFor.iso
               /\ scheduledFor.t > now
               /\ ValidDescription(description)
               /\ IsE164(ctx.phoneNumber)
               /\ dbOk
            THEN StoredOne(res)
            ELSE Rejected(res)

\* A first call stored a pending reminder scheduled after the instant of the
\* call, and a second call, made when the clock had reached an instant the
\* arguments could name, was rejected by the schema.
C6_Witness ==
    /\ Len(reminders) = 1
    /\ reminders[1].status = "pending"
    /\ reminders[1].scheduledFor > reminders[1].updatedAt
    /\ nCalls = 2
    /\ toolOut.op = "create_reminder"
    /\ toolOut.kind = "thrown"
    /\ now > 0

\* C4: every appendMessage call that completes adds its message at the end of
\* the stored sequence and leaves the messages stored before it in place,
\* whatever another call on the same conversation did between its load and
\* its write.
C4_BothAppended ==
    [][\A p \in Appenders :
          (appender[p].pc = "loaded" /\ appender'[p].result = "appended")
              => conversations'[appender[p].id].messages
                   = Append(conversations[appender[p].id].messages,
                            [role |-> appender[p].role,
                             content |-> appender[p].content,
                             timestamp |-> appender[p].loaded.lastMessageAt])]_vars

\* C2: a run of processMessageStream or of processMessage issues at most 5
\* Completion Client calls, whatever the completions propose.
C2_AtMostFiveCalls == run.calls <= 5

\* Both kinds of run issue a fifth call, after four rounds of tool calls, and
\* end after a fifth round of tool calls.
C2_Witness ==
    /\ run.pc = "finish"
    /\ run.calls = 5
    /\ run.i = 5
    /\ run.messages[Len(run.messages)].role = "tool"

\* The messages stored in the run's conversation before the run: all but the
\* one the run appended, while the run is in or just after its loop.
StoredBefore == SliceButLast(conversations[run.conversationId].messages)

\* C7: the message list handed to the first Completion Client call of a run is
\* the system instruction, then every message stored in the conversation
\* before the run, in stored order, then the new user message.
C7_FirstMessages ==
    (run.pc \in {"loop", "finish"} /\ run.calls >= 1)
        => run.firstMessages
             = <<SystemMessage>>
               \o [j \in DOMAIN StoredBefore |->
                      PromptMessage(StoredBefore[j].role, StoredBefore[j].content)]
               \o <<HumanMessage(run.message)>>

\* The runs that ended on conversation c, in order.
RunsOn(c) ==
    LET OnC(e) == e.conversationId = c
    IN  SelectSeq(runLog, OnC)

\* C8: when every run that was made on a conversation ended with a non-empty
\* answer, and none is under way, the conversation holds two messages per
\* run, in the order of the runs: the run's user message, then its answer,
\* with timestamps that never decrease.
C8_TwoPerRun ==
    \A c \in DOMAIN conversations :
        LET runs == RunsOn(c)
            stored == conversations[c].messages
        IN  (/\ run.pc \in {"idle", "done", "failed"}
             /\ \A k \in DOMAIN runs : runs[k].outcome = "answered")
                => /\ Len(stored) = 2 * Len(runs)
                   /\ \A k \in DOMAIN runs :
                         /\ stored[2 * k - 1].role = "user"
                         /\ stored[2 * k - 1].content = runs[k].message
                         /\ stored[2 * k].role = "assistant"
                         /\ stored[2 * k].content = runs[k].answer
                   /\ \A j \in 1..(Len(stored) - 1) :
                         stored[j].timestamp <= stored[j + 1].timestamp

\* Two runs on conversation 1 ended with an answer, the second at a later
\* time than the first, and one of them after a round of tool calls.
C8_Witness ==
    /\ run.pc = "done"
    /\ Len(RunsOn(1)) = 2
    /\ \A k \in 1..2 : RunsOn(1)[k].outcome = "answered"
    /\ Len(conversations[1].messages) = 4
    /\ conversations[1].messages[1].timestamp < conversations[1].messages[4].timestamp
    /\ reminders # <<>>

\* The tool calls of a message whose name is one of the tools'.
Dispatched(message) ==
    LET Known(call) == call.name \in ToolNames
    IN  SelectSeq(message.calls, Known)

\* C11: whatever way a dispatched tool fails (its arguments, a missing record,
\* another owner, the store), the run goes on: every assistant message with
\* tool calls in the message list is followed by one tool-result message per
\* dispatched call, and the step that dispatched them moved to the next
\* round, or past the loop when it was the last.
C11_ToolFailureContinues ==
    /\ [](\A j \in DOMAIN run.messages :
            (run.messages[j].role = "assistant" /\ run.messages[j].calls # <<>>)
                => /\ j + Len(Dispatched(run.messages[j])) <= Len(run.messages)
                   /\ \A m \in 1..Len(Dispatched(run.messages[j])) :
                         /\ run.messages[j + m].role = "tool"
                         /\ run.messages[j + m].output.kind \in {"json", "thrown"})
    /\ [][(run.pc = "loop" /\ Len(run'.messages) > Len(run.messages)
            /\ run'.messages[Len(run.messages) + 1].calls # <<>>)
               => /\ run'.i = run.i + 1
                  /\ run'.pc = IF run'.i < 5 THEN "loop" ELSE "finish"]_vars

\* A run that ended with an answer after tool calls that failed on their
\* arguments, on a missing record, on another owner's record and on the store.
C11_Witness ==
    /\ run.pc = "done"
    /\ run.finalResponse # <<>>
    /\ \E a, b, c, d \in DOMAIN run.messages :
          /\ run.messages[a].output.kind = "thrown"
          /\ run.messages[b].output.error = "Reminder not found."
          /\ run.messages[c].output.error
               = "You do not have permission to delete this reminder."
          /\ run.messages[d].output.error = "persistence"

\* C12: a Completion Client call that fails ends the run as failed: the step
\* changes neither store, so the user message and the reminders written by
\* the rounds before stay; the conversation's last message stays that user
\* message, with no assistant message after it; and the run makes no further
\* call.
C12_CompletionFailureAborts ==
    /\ [][(run.pc = "loop" /\ run'.pc = "failed")
              => /\ run'.calls = run.calls + 1
                 /\ run'.messages = run.messages
                 /\ reminders' = reminders
                 /\ conversations' = conversations
                 /\ runLog'[Len(runLog')].outcome = "failed"]_vars
    /\ [](run.pc = "failed" /\ run.calls >= 1
            => LET stored == conversations[run.conversationId].messages
               IN  /\ stored # <<>>
                   /\ stored[Len(stored)].role = "user"
                   /\ stored[Len(stored)].content = run.message)
    /\ [][(run.pc = "failed" /\ run' # run) => run'.calls = 0]_vars

\* The third completion call of a run failed, after two rounds of tool calls
\* that wrote a reminder.
C12_Witness ==
    /\ run.pc = "failed"
    /\ run.calls = 3
    /\ run.i = 2
    /\ reminders # <<>>

\* C13: no conversation stores an assistant message whose content is empty.
C13_NoEmptyAssistantMessage ==
    \A c \in DOMAIN conversations :
        \A j \in DOMAIN conversations[c].messages :
            conversations[c].messages[j].role = "assistant"
                => conversations[c].messages[j].content # <<>>

\* The tool calls a run executed and their outputs, in order: the message
\* list without its texts.
ToolTrace(r) ==
    LET OfTools(m) == m.role = "tool" \/ m.calls # <<>>
    IN  SelectSeq(r.messages, OfTools)

\* C14: when the streaming run and the non-streaming run, started from the
\* same stores and fed the same completions, have both ended, they executed
\* the same tool calls with the same outputs, left the same conversation
\* store and reminder store, and the text the non-streaming run returns is
\* the assistant message the streaming run stored.
C14_SameOutcome ==
    (run.pc = "done" /\ twin.run.pc = "done")
        => /\ ToolTrace(run) = ToolTrace(twin.run)
           /\ reminders = twin.reminders
           /\ conversations = twin.conversations
           /\ LET stored == conversations[run.conversationId].messages
              IN  /\ stored[Len(stored)].role = "assistant"
                  /\ stored[Len(stored)].content = twin.run.finalResponse

\* A delete_reminder call that returned success.
Deleted ==
    /\ nCalls' = nCalls + 1
    /\ toolOut'.op = "delete_reminder"
    /\ toolOut'.success

\* C15: a delete_reminder that succeeds keeps the record, with status
\* cancelled, a new updatedAt and every other field as it was, and touches no
\* other record; and no step of the tools or of the scheduler removes a
\* reminder id from the store.
C15_SoftDelete ==
    /\ [][Deleted
            => /\ toolOut'.id \in Ids(reminders)
               /\ reminders' = [reminders EXCEPT
                                   ![toolOut'.id] = [@ EXCEPT !.status = "cancelled",
                                                              !.updatedAt = now]]]_vars
    /\ [][Ids(reminders) \subseteq Ids(reminders')]_vars

\* A delete_reminder succeeded in a store of two records, of which a scheduler
\* tick has read one.
C15_Witness ==
    /\ toolOut.op = "delete_reminder"
    /\ toolOut.success
    /\ Len(reminders) = 2
    /\ reminders[toolOut.id].status = "cancelled"
    /\ reminders[toolOut.id].title = <<"a">>
    /\ nTicks >= 1

\* Reminder id is stored, pending, and due.
DuePending(id) ==
    /\ id \in Ids(reminders)
    /\ IsPending(reminders[id])
    /\ IsDue(reminders[id], now)

\* Reminder id is sent, or was cancelled by a tool.
Settled(id) ==
    /\ id \in Ids(reminders)
    /\ reminders[id].status \in {"sent", "cancelled"}

\* C16: when ticks keep coming and their sends and store writes succeed again
\* and again, a reminder that is pending and due is eventually marked sent,
\* unless a tool cancels it.
C16_EventuallySent ==
    \A id \in 1..MaxReminders : DuePending(id) ~> Settled(id)

\* A reminder is marked sent by a tick after a tick before it failed to send
\* it.
C16_Witness ==
    \E id \in Ids(reminders) :
        /\ reminders[id].status = "sent"
        /\ id \in tick["t1"].failedBefore
        /\ tick["t1"].pc = "done"

\* The step is a successful send of reminder id by the tick in slot k.
Delivers(k, id) ==
    /\ tick[k].pc = "send"
    /\ Len(tick'[k].sends) = Len(tick[k].sends) + 1
    /\ tick'[k].sends[Len(tick'[k].sends)].id = id
    /\ tick'[k].sends[Len(tick'[k].sends)].ok

\* C17: nothing claims a reminder before it is sent.  The due query of either
\* instance returns every reminder that is pending and due, also one the
\* other instance has read or sent and not yet marked; and a send step
\* delivers whatever the record's status and the other instance's sends are.
\* So the state of C17_Witness, two successful sends of one reminder, is
\* reached.
C17_NothingClaimsAReminder ==
    /\ [][\A k \in TickIds :
             Queried(k) => DueIds(tick'[k]) = {id \in Ids(reminders) : IsDue(reminders[id], now)}]_vars
    /\ [][\A k \in TickIds : \A id \in Ids(reminders) :
             Delivers(k, id)
                 => delivered'[id] = IF delivered[id] < MaxTicks
                                     THEN delivered[id] + 1 ELSE delivered[id]]_vars

\* Both instances have sent the same reminder with success, each before the
\* other marked it: the Notification Channel has received it twice.
C17_Witness ==
    \E id \in Ids(reminders) :
        /\ delivered[id] = 2
        /\ \A k \in TickIds :
              /\ tick[k].pc = "mark"
              /\ tick[k].due[tick[k].i].id = id
              /\ SendSucceeded(tick[k], id)
        /\ reminders[id].status = "pending"

\* Record r has status sent and the field values of data.
SentWith(r, data) ==
    /\ r.status = "sent"
    /\ \A f \in DOMAIN data : r[f] = data[f]

\* C18: the mark-as-sent write of a tick and the write of an update_reminder
\* on the same reminder lose nothing of each other, in either order: for
\* every stored reminder and every update by its owner that succeeds, the
\* record after both writes has status sent and the update's field values;
\* and the mark-as-sent step of a tick changes status and updatedAt only, so
\* it keeps what an update wrote after the tick's due query.
C18_NeitherWriteLost ==
    /\ [](\A id \in Ids(reminders) : \A a \in ValidUpdateArgs :
            LET data == UpdateData(a.title, a.description, a.scheduledFor)
                updated == UpdateReminderTool(reminders, reminders[id].userId,
                               IdText(id), a.title, a.description, a.scheduledFor,
                               now, TRUE, TRUE)
                marked == MarkAsSent(reminders, id, now)
                after == UpdateReminderTool(marked, reminders[id].userId,
                             IdText(id), a.title, a.description, a.scheduledFor,
                             now, TRUE, TRUE)
            IN  /\ updated.out.success /\ after.out.success
                /\ SentWith(MarkAsSent(updated.store, id, now)[id], data)
                /\ SentWith(after.store[id], data)
                /\ after.store = MarkAsSent(updated.store, id, now))
    /\ [][\A k \in TickIds :
             (tick[k].pc = "mark" /\ tick'[k].marks # tick[k].marks
              /\ tick'[k].marks[Len(tick'[k].marks)].ok)
                 => reminders' = [reminders EXCEPT
                       ![tick[k].due[tick[k].i].id] =
                           [@ EXCEPT !.status = "sent", !.updatedAt = now]]]_vars

\* A tick marked sent a reminder that update_reminder had changed after the
\* tick's due query read it: the record is sent and carries the new title.
C18_Witness ==
    /\ tick["t1"].pc = "done"
    /\ tick["t1"].due # <<>>
    /\ tick["t1"].marks # <<>>
    /\ tick["t1"].marks[1].ok
    /\ tick["t1"].due[1].doc.title = <<"a">>
    /\ reminders[tick["t1"].due[1].id].title = <<"b">>
    /\ reminders[tick["t1"].due[1].id].status = "sent"
    /\ toolOut.op = "update_reminder"
    /\ toolOut.success

Ellipsis == <<".", ".", ".">>

\* n is the length of the first line of content cut to 50 characters: the
\* first n characters hold no line break, and they stop at 50, at the end of
\* the content, or before a line break.
IsCutLength(content, n) ==
    /\ n <= 50
    /\ \A j \in 1..n : content[j] # Newline
    /\ n = 50 \/ n = Len(content) \/ content[n + 1] = Newline

\* C19: a conversation whose only message is a user's is titled with the first
\* line of that message cut to its first 50 characters, followed by '...'
\* exactly when that is shorter than the message; a message of one line and
\* at most 50 characters is the title as it is.
C19_TitleOfFirstMessage ==
    \A c \in DOMAIN conversations :
        LET stored == conversations[c].messages
            title == conversations[c].title
        IN  (Len(stored) = 1 /\ stored[1].role = "user")
                => LET content == stored[1].content
                   IN  /\ \E n \in 0..Len(content) :
                             /\ IsCutLength(content, n)
                             /\ title = IF n < Len(content)
                                        THEN SubSeq(content, 1, n) \o Ellipsis
                                        ELSE SubSeq(content, 1, n)
                       /\ (Len(content) <= 50 /\ \A j \in DOMAIN content :
                                                    content[j] # Newline)
                             => title = content

\* A first user message of one line of 51 characters is titled with its first
\* 50 characters and the ellipsis.
C19_Witness ==
    /\ Len(conversations[1].messages) = 1
    /\ conversations[1].messages[1].role = "user"
    /\ conversations[1].messages[1].content = Repeat("x", 51)
    /\ conversations[1].title = Repeat("x", 50) \o Ellipsis

\* C20: no appendMessage changes the title of a conversation that holds a
\* message already; so the title is the one given at creation unless the
\* first message is a user's.
C20_TitleSetOnce ==
    /\ [][\A c \in DOMAIN conversations :
             conversations[c].messages # <<>>
                 => conversations'[c].title = conversations[c].title]_vars
    /\ [](\A c \in DOMAIN conversations :
            (conversations[c].messages # <<>>
             /\ conversations[c].messages[1].role # "user")
                => conversations[c].title = DefaultTitle)

\* Two user messages with different first lines are stored, and the title is
\* still the first one's.
C20_Witness ==
    /\ Len(conversations[1].messages) = 2
    /\ conversations[1].messages[1].role = "user"
    /\ conversations[1].messages[2].role = "user"
    /\ conversations[1].messages[1].content = <<"x">>
    /\ conversations[1].messages[2].content = Repeat("x", 51)
    /\ conversations[1].title = <<"x">>

\* ------------------------------------------------------------------- C21

\* The reminders of a user that a list call with the status argument selects.
Selected(userId, status) ==
    {i \in Ids(reminders) :
        /\ reminders[i].userId = userId
        /\ status = None \/ reminders[i].status = status[1]}

\* C21: a list_reminders call with a valid status argument and a working store
\* succeeds; its entries are the caller's reminders, those of the given status
\* when one is supplied, each once and as stored, in ascending order of
\* scheduledFor; when nothing matches the list is empty and the message says
\* that there are no reminders.  The call changes no reminder.
C21_ListsOwnRemindersInOrder ==
    [][\A userId \in Users, status \in StatusInputs :
          ListReminders(userId, status, TRUE) /\ StatusArgOk(status) =>
              LET out == toolOut'
                  ids == {out.reminders[j].id : j \in DOMAIN out.reminders}
              IN  /\ out.success
                  /\ ids = Selected(userId, status)
                  /\ Len(out.reminders) = Cardinality(ids)
                  /\ \A j \in DOMAIN out.reminders :
                        out.reminders[j] = ListEntry(reminders, out.reminders[j].id)
                  /\ \A j, k \in DOMAIN out.reminders :
                        j < k => out.reminders[j].scheduledFor
                                    <= out.reminders[k].scheduledFor
                  /\ out.message = IF ids = {} THEN NoRemindersMessage(status)
                                   ELSE FoundMessage(Cardinality(ids))
                  /\ reminders' = reminders]_vars

\* A list call returned two reminders in the order of their times, the
\* reverse of the order in which they were stored.
C21_Witness ==
    /\ toolOut.op = "list_reminders"
    /\ toolOut.success
    /\ Len(toolOut.reminders) = 2
    /\ toolOut.reminders[1].id = 2
    /\ toolOut.reminders[1].scheduledFor < toolOut.reminders[2].scheduledFor

\* ------------------------------------------------------------------- C22

\* C22: the event stream of a chat request that started streaming and was
\* ended has the sentinel marker as its last item, after a run that completed
\* and after one that aborted.
C22_EndsWithSentinel ==
    LET res == ChatResponse(run)
    IN  run.kind = "stream" /\ run.pc # "idle" /\ res.stream /\ res.ended =>
            res.items[Len(res.items)] = Sentinel

\* ------------------------------------------------------------------- C23

\* The events a step of the run emits, and the messages it adds to the list.
NewEvents == SubSeq(run'.events, Len(run.events) + 1, Len(run'.events))

NewMessages == SubSeq(run'.messages, Len(run.messages) + 1, Len(run'.messages))

IsToolEvent(event) == event.type \in {"tool_start", "tool_end"}

\* C23: a streaming round whose accumulated message proposes tool calls emits,
\* for each proposed call in the order proposed, one tool_start and one
\* tool_end that carries the tool's output, and adds one tool-result message
\* with that output, before anything of the next call and before the round
\* ends.
C23_EachProposedCallAnswered ==
    [][(/\ run.pc = "loop"
        /\ run.kind = "stream"
        /\ run'.pc \in {"loop", "finish"}
        /\ NewMessages # <<>>)
          => LET proposed == NewMessages[1].calls
                 results == Tail(NewMessages)
                 events == SelectSeq(NewEvents, IsToolEvent)
             IN  /\ Len(results) = Len(proposed)
                 /\ Len(events) = 2 * Len(proposed)
                 /\ \A j \in DOMAIN proposed :
                       /\ events[2 * j - 1].type = "tool_start"
                       /\ events[2 * j - 1].name = proposed[j].name
                       /\ events[2 * j].type = "tool_end"
                       /\ events[2 * j].name = proposed[j].name
                       /\ results[j].role = "tool"
                       /\ results[j].output = events[2 * j].output]_vars

\* ------------------------------------------------------------------- C24

IsTextOnly(chunk) == chunk.content # <<>> /\ chunk.calls = <<>>

IsToken(event) == event.type = "token"

\* C24: the token events of a streaming round are the texts of the chunks
\* that carry text and no tool call part, one event per chunk and in the
\* order of the chunks, emitted before the round's tool events; the text of a
\* chunk with a tool call part, and the tool call parts, are in no event.
C24_TokensOfTextChunks ==
    [][\A chunks \in Completions :
          run.kind = "stream" /\ Round(chunks, TRUE, TRUE, TRUE) =>
              LET texts == SelectSeq(chunks, IsTextOnly)
                  tokens == SelectSeq(NewEvents, IsToken)
              IN  /\ Len(tokens) = Len(texts)
                  /\ \A j \in DOMAIN texts :
                        /\ tokens[j].text = texts[j].content
                        /\ NewEvents[j] = tokens[j]
                  /\ \A j \in DOMAIN NewEvents :
                        NewEvents[j].type \in {"token", "tool_start", "tool_end"}]_vars

\* A streaming round emitted the text "t" of a chunk without a tool call part
\* and not the text "r" of the chunk that proposed delete_reminder.
C24_Witness ==
    /\ run.kind = "stream"
    /\ \E j \in DOMAIN run.messages :
          /\ run.messages[j].role = "assistant"
          /\ run.messages[j].content = <<"t", "r">>
          /\ run.messages[j].calls # <<>>
    /\ \E j \in DOMAIN run.events :
          run.events[j].type = "token" /\ run.events[j].text = <<"t">>
    /\ \A j \in DOMAIN run.events :
          run.events[j].type = "token" => run.events[j].text # <<"r">>
    /\ \E j \in DOMAIN run.events : run.events[j].type = "tool_end"

\* ------------------------------------------------------------------- C25

IsConversationId(event) == event.type = "conversation_id"

\* A step that changes the messages of a stored conversation.
AppendsAMessage ==
    \E id \in DOMAIN conversations :
        conversations'[id].messages # conversations[id].messages

\* C25: a streaming run that resolved a conversation has emitted
\* conversation_id once, with the id of that conversation and as its first
\* event, and a run that resolved none has emitted nothing; the event is
\* there before the step that appends the user message and before every
\* completion call; a run started with an id that matches no conversation
\* fails at once, with no event, and leaves both stores as they were.
C25_ConversationIdFirst ==
    /\ [](run.kind = "stream" /\ run.pc # "idle" =>
             IF run.conversationId # 0
             THEN /\ Len(run.events) >= 1
                  /\ run.events[1] = Event("conversation_id", <<>>, "",
                                           Success(run.conversationId))
                  /\ Len(SelectSeq(run.events, IsConversationId)) = 1
             ELSE run.pc = "failed" /\ run.events = <<>>)
    /\ [][(/\ run'.kind = "stream"
           /\ run' # run
           /\ AppendsAMessage \/ run'.calls > run.calls)
             => /\ Len(run.events) >= 1
                /\ IsConversationId(run.events[1])]_vars
    /\ [][\A caller \in Callers, message \in Texts, id \in 1..2, findOk \in BOOLEAN :
             (/\ id \notin DOMAIN conversations
              /\ StartRun("stream", caller[1], caller[2], message, Some(id), findOk))
                => /\ run'.pc = "failed"
                   /\ run'.events = <<>>
                   /\ conversations' = conversations
                   /\ reminders' = reminders]_vars

\* A streaming run was started with an id that matches no conversation and
\* failed, and the next one resolved its conversation, emitted its id, stored
\* the user message, called the Completion Client and ended.
C25_Witness ==
    /\ Len(runLog) = 2
    /\ runLog[1].outcome = "failed"
    /\ runLog[1].conversationId = 0
    /\ run.kind = "stream"
    /\ run.pc = "done"
    /\ run.calls >= 1
    /\ Len(conversations) = 1
    /\ Len(conversations[1].messages) >= 1
    /\ IsConversationId(run.events[1])

\* ------------------------------------------------------------------- C26

\* C26: a successful update_reminder leaves the reminder with the supplied
\* title, description and scheduledFor, each of the three that is not supplied
\* as it was, and status, userId, conversationId and phoneNumber as they were;
\* no other reminder changes.
C26_OnlySuppliedFields ==
    [][(/\ toolOut'.op = "update_reminder"
        /\ toolOut'.success
        /\ nCalls' = nCalls + 1)
          => \A userId \in Users, reminderId \in IdInputs, title \in NewTitleInputs,
                description \in NewDescriptionInputs,
                scheduledFor \in Optional(DateInputs) :
                UpdateReminder(userId, reminderId, title, description,
                               scheduledFor, TRUE, TRUE)
                  => LET id == reminderId.n
                         old == reminders[id]
                         new == reminders'[id]
                     IN  /\ new.title = IF title # None THEN title[1] ELSE old.title
                         /\ new.description = IF description # None THEN description
                                              ELSE old.description
                         /\ new.scheduledFor = IF scheduledFor # None
                                               THEN scheduledFor[1].t
                                               ELSE old.scheduledFor
                         /\ new.status = old.status
                         /\ new.userId = old.userId
                         /\ new.conversationId = old.conversationId
                         /\ new.phoneNumber = old.phoneNumber
                         /\ DOMAIN reminders' = DOMAIN reminders
                         /\ \A j \in DOMAIN reminders :
                               j # id => reminders'[j] = reminders[j]]_vars

\* An update that supplied a title and no description succeeded on a reminder
\* created with a description: the title is the new one, the description the
\* one it was created with.
C26_Witness ==
    /\ toolOut.op = "update_reminder"
    /\ toolOut.success
    /\ reminders[toolOut.id].title = <<"b">>
    /\ reminders[toolOut.id].description = Some(<<"d">>)

\* ------------------------------------------------------------------- C27

\* A step stores a scheduledFor value in reminder id: the reminder is new, or
\* its scheduledFor changes.
StoresScheduledFor(id) ==
    \/ id \notin DOMAIN reminders
    \/ reminders'[id].scheduledFor # reminders[id].scheduledFor

\* C27: whenever a create_reminder or update_reminder write stores a
\* scheduledFor value, the value is later than the clock at the write, however
\* much time passed since the arguments were validated.
C27_FutureWhenStored ==
    [][\A id \in DOMAIN reminders' :
          StoresScheduledFor(id) => reminders'[id].scheduledFor > now']_vars

\* ------------------------------------------------------------------- C28

\* C28: in every reachable state at most one conversation is stored under a
\* phone number that is not empty, however the getOrCreate calls follow or
\* overlap one another.
C28_OnePerPhone ==
    \A phoneNumber \in {PhoneA, PhoneB} :
        Cardinality(ConversationsOf(conversations, phoneNumber)) <= 1

\* ------------------------------------------------------------------- C29

\* C29: a reminder is due at an instant exactly when it is pending and its
\* scheduledFor is not after the instant, so a sent or cancelled reminder and
\* one scheduled later are not due; and the due query at an instant returns
\* the stored reminders that are due at it, each once and as stored.
C29_DueExactlyPendingAndReached ==
    \A t \in 0..(MaxTime + 1) :
        LET found == FindDueReminders(reminders, t)
        IN  /\ \A i \in Ids(reminders) :
                  /\ IsDue(reminders[i], t) <=>
                        ~(\/ reminders[i].status \in {"sent", "cancelled"}
                          \/ reminders[i].scheduledFor > t)
                  /\ IsDue(reminders[i], t) <=>
                        \E j \in DOMAIN found : found[j].id = i
            /\ \A j \in DOMAIN found :
                  /\ found[j].id \in Ids(reminders)
                  /\ found[j].doc = reminders[found[j].id]
            /\ \A j, k \in DOMAIN found : j # k => found[j].id # found[k].id

\* A tick's due query returned one of two stored reminders whose time has
\* come: the other one is cancelled or sent.
C29_Witness ==
    /\ tick["t1"].pc = "send"
    /\ Len(tick["t1"].due) = 1
    /\ Len(reminders) = 2
    /\ \A i \in Ids(reminders) : reminders[i].scheduledFor <= now
    /\ \E i \in Ids(reminders) : reminders[i].status \in {"sent", "cancelled"}
    /\ IsDue(reminders[tick["t1"].due[1].id], now)

\* ------------------------------------------------------------------- C30

\* A failure recorded by the tick in slot k: of its due query, of a send, of
\* a mark-as-sent write.
TickFailed(k) ==
    \/ ~tick[k].queryOk
    \/ \E j \in DOMAIN tick[k].sends : ~tick[k].sends[j].ok
    \/ \E j \in DOMAIN tick[k].marks : ~tick[k].marks[j].ok

\* The step records a failure of the tick in slot k.
FailsNow(k) ==
    \/ tick'[k].n # tick[k].n /\ ~tick'[k].queryOk
    \/ /\ Len(tick'[k].sends) = Len(tick[k].sends) + 1
       /\ ~tick'[k].sends[Len(tick'[k].sends)].ok
    \/ /\ Len(tick'[k].marks) = Len(tick[k].marks) + 1
       /\ ~tick'[k].marks[Len(tick'[k].marks)].ok

StepsLeft(r) ==
    CASE r.pc = "resolved" -> maxIterations + 2
      [] r.pc = "loop" -> (maxIterations - r.i) + 1
      [] r.pc = "finish" -> 1
      [] OTHER -> 0

\* C31: a run goes from its start to the append of the user message, to the
\* rounds of completion and tool calls, to its end, and to nothing else; it
\* makes at most maxIterations completion calls; each of its steps leaves
\* fewer steps to take; and a run under way reaches its end or an error.
C31_RunTerminates ==
    /\ [](run.i <= maxIterations /\ run.calls <= maxIterations)
    /\ [][run' # run =>
             /\ run.pc \in {"idle", "done", "failed"} => run'.pc \in {"resolved", "failed"}
             /\ run.pc = "resolved" => run'.pc \in {"loop", "failed"}
             /\ run.pc = "loop" => run'.pc \in {"loop", "finish", "failed"}
             /\ run.pc = "finish" => run'.pc \in {"done", "failed"}
             /\ run.pc \in {"resolved", "loop", "finish"} =>
                   StepsLeft(run') < StepsLeft(run)]_vars
    /\ (run.pc \in {"resolved", "loop", "finish"}) ~> (run.pc \in {"done", "failed"})

\* A run ended after five rounds of tool calls.
C31_Witness ==
    /\ run.pc = "done"
    /\ run.i = maxIterations
    /\ run.calls = maxIterations

\* ------------------------------------------------------------------- C32

NonDecreasing(messages) ==
    \A j, k \in DOMAIN messages :
        j < k => messages[j].timestamp <= messages[k].timestamp

\* C32: in every reachable state the timestamps of a stored conversation's
\* messages never decrease along the sequence, and neither do those of the
\* copy an appendMessage call has loaded and added its message to.
C32_TimestampsNonDecreasing ==
    /\ \A id \in DOMAIN conversations : NonDecreasing(conversations[id].messages)
    /\ \A p \in Appenders :
          appender[p].pc = "loaded" => NonDecreasing(appender[p].loaded.messages)

\* A conversation holds a message appended at a later instant than the one
\* before it.
C32_Witness ==
    \E id \in DOMAIN conversations :
        /\ \E p \in Appenders : appender[p].result = "appended" /\ appender[p].id = id
        /\ Len(conversations[id].messages) >= 2
        /\ conversations[id].messages[1].timestamp
              < conversations[id].messages[Len(conversations[id].messages)].timestamp

\* The status tests of the Reminder object that hold.
StatusTests(r) ==
    {f \in {"isPending", "isSent", "isCancelled"} :
        \/ f = "isPending" /\ IsPending(r)
        \/ f = "isSent" /\ IsSent(r)
        \/ f = "isCancelled" /\ IsCancelled(r)}

\* C33: after any sequence of markAsSent and cancel calls on a Reminder object
\* exactly one of isPending, isSent and isCancelled holds; right after markAsSent
\* isSent holds and isPending does not; right after cancel isCancelled holds
\* and isPending does not.
C33_OneStatusTestHolds ==
    /\ Cardinality(StatusTests(object.reminder)) = 1
    /\ object.last = "markAsSent" =>
          IsSent(object.reminder) /\ ~IsPending(object.reminder)
    /\ object.last = "cancel" =>
          IsCancelled(object.reminder) /\ ~IsPending(object.reminder)

\* A cancelled object on which markAsSent was then called, at a later instant.
C33_Witness ==
    /\ object.last = "markAsSent"
    /\ IsSent(object.reminder)
    /\ object.reminder.updatedAt = MaxTime
    /\ object.reminder.scheduledFor = MaxTime + 1

\* C40: for each OTP stored by storeOTP, verifyOTP returns valid at most once,
\* never after the expiry and never after MAX_ATTEMPTS failed verifications;
\* once it has returned valid, expired or too-many-attempts for an address,
\* every later verifyOTP for that address fails until storeOTP is called again.
C40_ValidAtMostOnce ==
    /\ [](\A k \in OtpKeys : otpOut.since[k].valids <= 1)
    /\ [][\A email \in Emails, otp \in Codes :
            OtpVerify(email, otp) /\ otpOut'.valid =>
                LET h == otpOut.since[ToLowerCase(email)]
                IN  /\ h.stored
                    /\ ~h.closed
                    /\ h.valids = 0
                    /\ now <= h.expiresAt
                    /\ h.fails < MAX_ATTEMPTS]_vars
    /\ [][\A k \in OtpKeys :
            otpOut.since[k].closed /\ ~otpOut'.since[k].closed =>
                \E email \in Emails, otp \in Codes :
                    ToLowerCase(email) = k /\ OtpStore(email, otp)]_vars

\* A code accepted at the very minute it expires, after MAX_ATTEMPTS - 1 wrong
\* codes, under an address written in another case than the one stored.
C40_Witness ==
    /\ otpOut.valid
    /\ otpOut.key = "ann@x"
    /\ otpOut.since["ann@x"].fails = MAX_ATTEMPTS - 1
    /\ otpOut.since["ann@x"].expiresAt = now
    /\ otpOut.since["bob@x"].closed
    /\ otpStore["ann@x"] = None

\* ------------------------------------------------------------------- C34

\* C34: the conversation a run works on (the one it appends its messages to
\* and whose earlier messages it places in the prompt) is owned by the user
\* the run is for, whether it was resolved by a supplied conversation id or by
\* get-or-create on the phone number.
C34_OwnConversation ==
    run.pc \in {"resolved", "loop", "finish", "done"} =>
        /\ run.conversationId \in DOMAIN conversations
        /\ conversations[run.conversationId].userId = run.userId
        /\ run.conversation.userId = run.userId

\* ------------------------------------------------------------------- C35

\* C35: a reminder that a successful delete_reminder has cancelled before the
\* scheduler invokes the send for it is not delivered by that send, whatever
\* the interleaving of the call with the tick's due query, send and
\* mark-as-sent steps (cancelled is written by delete_reminder only, so a
\* cancelled status at the send means the call returned success before it).
C35_DeletedNeverDelivered ==
    [][\A id \in DOMAIN reminders :
          reminders[id].status = "cancelled" => ~Delivers("t1", id)]_vars

\* ------------------------------------------------------------------- C36

\* C36: with one scheduler instance, over any sequence of ticks (ticks that
\* overlap and ticks whose mark-as-sent write fails included), the
\* Notification Channel receives at most one successful send per reminder.
C36_AtMostOneDelivery ==
    \A id \in DOMAIN delivered : delivered[id] <= 1

\* ------------------------------------------------------------------- C37

\* The data of the token events of a sequence of events, concatenated.
RECURSIVE TokenText(_)
TokenText(events) ==
    IF events = <<>> THEN <<>>
    ELSE (IF IsToken(Head(events)) THEN Head(events).text ELSE <<>>)
         \o TokenText(Tail(events))

\* C37: when a streaming run persists an assistant message, the content it
\* persists is the concatenation of the data of all the token events the run
\* has emitted, in the order emitted.
C37_PersistedIsStreamed ==
    [][(/\ run.kind = "stream"
        /\ run.pc = "finish"
        /\ run'.pc = "done"
        /\ conversations' # conversations)
          => LET stored == conversations'[run.conversationId].messages
             IN  /\ stored[Len(stored)].role = "assistant"
                 /\ stored[Len(stored)].content = TokenText(run'.events)]_vars

\* ------------------------------------------------------------------- C38

\* C38: in a run that completes without error every tool-result message added
\* to the message list is part of the input of a later Completion Client call
\* of the run.  Tool results are followed in the list by the message of the
\* next call that answered; results at the end of the list were handed to a
\* call only if one was issued after the round that added them (run.calls
\* counts the calls, run.i the rounds that proposed tool calls).
C38_ToolResultsReachTheModel ==
    (/\ run.pc = "done"
     /\ run.messages # <<>>
     /\ run.messages[Len(run.messages)].role = "tool")
        => run.calls > run.i

\* C38, within the budget: in a run that completes without error, tool results
\* at the end of the message list were handed to a later Completion Client
\* call unless they are those of the round that exhausted the budget of
\* maxIterations rounds.
C38_ToolResultsReachTheModelInBudget ==
    (/\ run.pc = "done"
     /\ run.messages # <<>>
     /\ run.messages[Len(run.messages)].role = "tool")
        => (run.calls > run.i \/ run.i = maxIterations)

\* A run that ended after a round of tool calls and the call that answered it.
C38_Witness ==
    /\ run.pc = "done"
    /\ run.i = 1
    /\ run.calls = 2
    /\ \E j \in DOMAIN run.messages :
          /\ run.messages[j].role = "tool"
          /\ j < Len(run.messages)
          /\ run.messages[Len(run.messages)].role = "assistant"

\* ------------------------------------------------------------------- C39

\* The reminders in the store stay there, with the user, the conversation and
\* the phone number they were stored with.
KeepsBinding ==
    \A id \in DOMAIN reminders :
        /\ id \in DOMAIN reminders'
        /\ reminders'[id].userId = reminders[id].userId
        /\ reminders'[id].conversationId = reminders[id].conversationId
        /\ reminders'[id].phoneNumber = reminders[id].phoneNumber

\* create_reminder stores at most one reminder, as the last one, carrying the
\* bound context of the call.
StoredBy(ctx, res) ==
    res.store # reminders =>
        /\ Len(res.store) = Len(reminders) + 1
        /\ SubSeq(res.store, 1, Len(reminders)) = reminders
        /\ res.store[Len(res.store)].userId = ctx.userId
        /\ res.store[Len(res.store)].conversationId = ctx.conversationId
        /\ res.store[Len(res.store)].phoneNumber = ctx.phoneNumber

=============================================================================
